---- MODULE Spec2Model ----
(***************************************************************************)
(* Ingestion-to-retrieval pipeline of the agentic RAG chatbot:             *)
(*   app/ingestion.py  parse -> split sections -> word windows -> store    *)
(*   app/store.py      the per-user Chroma collection                      *)
(*   app/retrieval.py  BM25 + TF-IDF cosine -> fusion -> candidates ->     *)
(*                     rerank -> top_k                                     *)
(* Text is a sequence of one-character strings ("SP", "NL", "NUL" name the *)
(* space, the newline and the null byte).  Real-valued scores are kept in  *)
(* fixed point.                                                            *)
(***************************************************************************)
EXTENDS Integers, Sequences, FiniteSets, TLC

VARIABLES
    \* ---- _word_chunks, run as a loop (specification SpecWC) ----
    wc_words,      \* words = text.split()
    wc_cw,         \* chunk_words
    wc_ow,         \* overlap_words
    wc_start,      \* start
    wc_out,        \* the windows yielded so far
    wc_pc,         \* "call" | "loop" | "done"
    \* ---- the application: store, ingestion, retrieval (specification Spec) ----
    collections,   \* the Chroma database: collection name -> [exists, rows]
    active,        \* store._active_collection_name ("None" for None)
    pc,            \* "idle", or "ingest" while ingest_paths is in its loop
    call,          \* the locals of the current (or last) ingest_paths call
    ret,           \* how the last finished operation ended
    clock,         \* ingest_paths calls started so far (time of datetime.now)
    uuidCtr,       \* uuid4 values drawn so far
    hist,          \* the finished ingest_paths calls, oldest first
    deploy,        \* the installation: reranker environment, numpy's tie order
    asked,         \* retrieve_hybrid calls so far
    \* ---- one call of a function of retrieval.py (specification SpecFn) ----
    fn_in,         \* the function called and its arguments
    fn_out,        \* [done |-> FALSE], or its result once it returned
    \* ---- the logged-in users of the process (specification SpecUsers) ----
    sess,          \* per user: where the user's script run is
    \* ---- user_store.py's accounts (specification SpecRegister) ----
    users_db,      \* the rows of table users of users.db
    reg            \* per browser session: its register_user call

wc_vars == <<wc_words, wc_cw, wc_ow, wc_start, wc_out, wc_pc>>
app_vars == <<collections, active, pc, call, ret, clock, uuidCtr, hist, deploy, asked>>

fn_vars == <<fn_in, fn_out>>

reg_vars == <<users_db, reg>>

vars == <<wc_vars, app_vars, fn_vars, sess, reg_vars>>

-----------------------------------------------------------------------------
\* Bounds of the model
MaxWords == 900          \* longest section windowed with the default 320/60
MaxSmallWords == 9       \* longest section windowed with the small configurations
MaxCw == 4               \* largest small chunk_words
MaxNegCw == 2            \* small chunk_words range down to -MaxNegCw
MaxOw == 4               \* largest small overlap_words
MaxNegOw == 1            \* small overlap_words range down to -MaxNegOw

\* Program constants
DefaultChunkWords == 320
DefaultOverlapWords == 60

-----------------------------------------------------------------------------
\* Generic helpers
Min(a, b) == IF a <= b THEN a ELSE b
Max(a, b) == IF a >= b THEN a ELSE b

\* Python's s[a:b] for a list s (0-based, end exclusive, negative indices
\* counted from the end, out-of-range indices clamped).
PySliceIndex(i, n) == IF i < 0 THEN Max(0, i + n) ELSE Min(i, n)
PySlice(s, a, b) ==
    LET lo == PySliceIndex(a, Len(s))
        hi == PySliceIndex(b, Len(s))
    IN  IF lo >= hi THEN <<>> ELSE SubSeq(s, lo + 1, hi)

-----------------------------------------------------------------------------
\* _word_chunks (ingestion.py:59-70), on the list of words

\* step = max(1, chunk_words - overlap_words)
WCStepMutNoClamp(cw, ow) == cw - ow
WCStepMutGap(cw, ow) == Max(1, cw + ow)
WCStepMutTwo(cw, ow) == Max(2, cw - ow)
WCStep(cw, ow) == Max(1, cw - ow)

\* end = min(len(words), start + chunk_words)
WCEndMutLong(words, start, cw) == Min(Len(words), start + cw + 1)
WCEndMutShort(words, start, cw) == Min(Len(words) - 1, start + cw)
WCEnd(words, start, cw) == Min(Len(words), start + cw)

\* words[start:end]
WCPiece(words, start, cw) == PySlice(words, start, WCEnd(words, start, cw))

\* if end == len(words): break
WCLast(words, start, cw) == WCEnd(words, start, cw) = Len(words)

RECURSIVE WCLoop(_, _, _, _, _)
WCLoop(words, cw, ow, start, out) ==
    IF start < Len(words)
    THEN LET out2 == Append(out, WCPiece(words, start, cw))
         IN  IF WCLast(words, start, cw)
             THEN out2
             ELSE WCLoop(words, cw, ow, start + WCStep(cw, ow), out2)
    ELSE out

\* the list of windows _word_chunks yields for a list of words
WordWindows(words, cw, ow) ==
    IF words = <<>> THEN <<>> ELSE WCLoop(words, cw, ow, 0, <<>>)

-----------------------------------------------------------------------------
\* Characters and text.  A text is a sequence of characters; a character is a
\* one-letter string, or "SP" (space), "NL" (newline), "TAB", "NUL" (\x00).

UpperSeq == <<"A","B","C","D","E","F","G","H","I","J","K","L","M",
              "N","O","P","Q","R","S","T","U","V","W","X","Y","Z">>
LowerSeq == <<"a","b","c","d","e","f","g","h","i","j","k","l","m",
              "n","o","p","q","r","s","t","u","v","w","x","y","z">>
UpperChars == {UpperSeq[i] : i \in 1..Len(UpperSeq)}
LowerChars == {LowerSeq[i] : i \in 1..Len(LowerSeq)}
DecDigits == <<"0","1","2","3","4","5","6","7","8","9">>
DigitChars == {"0","1","2","3","4","5","6","7","8","9"}
SpaceChars == {"SP", "NL", "TAB"}             \* what \s and str.split() match
AlphaChars == UpperChars \cup LowerChars      \* [A-Za-z]
AlnumChars == AlphaChars \cup DigitChars      \* [a-zA-Z0-9]

\* str.lower(), one character
LowerChar(c) ==
    IF c \in UpperChars
    THEN LowerSeq[CHOOSE i \in 1..Len(UpperSeq) : UpperSeq[i] = c]
    ELSE c
\* str.lower()
Lower(text) == [i \in 1..Len(text) |-> LowerChar(text[i])]

RECURSIVE Concat(_)
\* the concatenation of a sequence of sequences
Concat(ss) == IF ss = <<>> THEN <<>> ELSE Head(ss) \o Concat(Tail(ss))

\* the runs of two adjacent stretches of a text: the last run of the left
\* one and the first run of the right one are one run when `joined`
MergeRuns(left, right, joined) ==
    IF joined
    THEN SubSeq(left, 1, Len(left) - 1)
            \o <<left[Len(left)] \o right[1]>> \o Tail(right)
    ELSE left \o right

RECURSIVE SplitRuns(_, _, _, _)
\* the maximal runs of characters of `keep` in text[lo..hi], in order
SplitRuns(text, keep, lo, hi) ==
    IF lo > hi THEN <<>>
    ELSE IF lo = hi
    THEN IF text[lo] \in keep THEN << <<text[lo]>> >> ELSE <<>>
    ELSE MergeRuns(SplitRuns(text, keep, lo, (lo + hi) \div 2),
                   SplitRuns(text, keep, ((lo + hi) \div 2) + 1, hi),
                   /\ text[(lo + hi) \div 2] \in keep
                   /\ text[((lo + hi) \div 2) + 1] \in keep)

CharsOf(text) == {text[i] : i \in 1..Len(text)}

\* text.split(): the maximal runs of non-whitespace characters
SplitWords(text) == SplitRuns(text, CharsOf(text) \ SpaceChars, 1, Len(text))

RECURSIVE JoinSp(_)
\* " ".join(words)
JoinSp(words) ==
    IF words = <<>> THEN <<>>
    ELSE IF Len(words) = 1 THEN words[1]
    ELSE JoinSp(SubSeq(words, 1, Len(words) \div 2)) \o <<"SP">>
            \o JoinSp(SubSeq(words, (Len(words) \div 2) + 1, Len(words)))

\* _normalize_whitespace (ingestion.py:43-46): "\x00" -> " ", every run of
\* whitespace -> one space, strip.  After the replacement the words are the
\* runs of non-whitespace, joined by the single spaces the runs collapse to.
normalize_whitespace(text) ==
    LET t1 == [i \in 1..Len(text) |-> IF text[i] = "NUL" THEN "SP" ELSE text[i]]
    IN  JoinSp(SplitWords(t1))

-----------------------------------------------------------------------------
\* _split_sections (ingestion.py:49-56)

MinTitleRun == 3      \* {3,80} in the second alternative
MaxTitleRun == 80
MaxHashes == 3        \* #{1,3}

At(text, i) == IF i >= 1 /\ i <= Len(text) THEN text[i] ELSE "EOT"

\* (?=\n#{1,3}\s) at the newline text[i]
HeadingHashes(text, i) ==
    \E k \in 1..MaxHashes :
        /\ \A j \in 1..k : At(text, i + j) = "#"
        /\ At(text, i + k + 1) \in SpaceChars

\* (?=\n[A-Z][A-Za-z\s]{3,80}:) at the newline text[i]
HeadingTitle(text, i) ==
    /\ At(text, i + 1) \in UpperChars
    /\ \E k \in MinTitleRun..Min(MaxTitleRun, Len(text)) :
          /\ \A j \in 1..k : At(text, i + 1 + j) \in (AlphaChars \cup SpaceChars)
          /\ At(text, i + 1 + k + 1) = ":"

\* (?=\n\d+\.?\s+[A-Z]) at the newline text[i]
HeadingNumbered(text, i) ==
    \E d \in 1..Len(text) : \E dot \in {0, 1} : \E sp \in 1..Len(text) :
        /\ \A j \in 1..d : At(text, i + j) \in DigitChars
        /\ dot = 1 => At(text, i + d + 1) = "."
        /\ \A j \in 1..sp : At(text, i + d + dot + j) \in SpaceChars
        /\ At(text, i + d + dot + sp + 1) \in UpperChars

\* the positions re.split cuts before: the newlines a heading follows
SplitPoints(text) ==
    {i \in 1..Len(text) :
        /\ text[i] = "NL"
        /\ \/ HeadingHashes(text, i)
           \/ HeadingTitle(text, i)
           \/ HeadingNumbered(text, i)}

RECURSIVE CutAt(_, _, _)
\* text[from..] cut before each position of `cuts`
CutAt(text, cuts, from) ==
    LET later == {c \in cuts : c >= from}
    IN  IF later = {}
        THEN <<SubSeq(text, from, Len(text))>>
        ELSE LET c == CHOOSE x \in later : \A y \in later : x <= y
             IN  <<SubSeq(text, from, c - 1)>> \o CutAt(text, cuts \ {c}, c)

\* re.split(pattern, text)
RoughBlocksMutDropFirst(text) ==
    IF Len(CutAt(text, SplitPoints(text), 1)) >= 2
    THEN Tail(CutAt(text, SplitPoints(text), 1))
    ELSE CutAt(text, SplitPoints(text), 1)
RoughBlocks(text) == CutAt(text, SplitPoints(text), 1)

split_sections(text) ==
    LET rough == RoughBlocks(text)
        norm == [i \in 1..Len(rough) |-> normalize_whitespace(rough[i])]
        out == SelectSeq(norm, LAMBDA n : n # <<>>)
    IN  IF out # <<>> THEN out ELSE <<normalize_whitespace(text)>>

\* _word_chunks(text) (ingestion.py:59-70): split, window, join
word_chunks(text, cw, ow) ==
    LET ws == WordWindows(SplitWords(text), cw, ow)
    IN  [i \in 1..Len(ws) |-> JoinSp(ws[i])]

-----------------------------------------------------------------------------
\* The files on disk (fixed): path -> name (the last path component) and what
\* reading yields.  `text` is what read_text(errors="ignore") decodes, `pages`
\* the text layer of each page that fitz extracts.

T_cat == <<"c","a","t">>
T_dog == <<"d","o","g">>
T_the == <<"t","h","e">>
T_owl == <<"o","w","l">>
T_cat_dog == <<"c","a","t","SP","d","o","g">>

\* the i-th of the distinct words a00, a01, ..., a99, b00, ...
WordNo(i) == <<LowerSeq[1 + (i \div 100)],
               DecDigits[1 + ((i \div 10) % 10)], DecDigits[1 + (i % 10)]>>

DocWordCount == 400      \* the words of the long plain-text document
\* its words, and the words start..(end - 1) joined as a window joins them
DocWords == [i \in 1..DocWordCount |-> WordNo(i - 1)]
DocSlice(start, end) == JoinSp(PySlice(DocWords, start, end))

FileTable ==
    [p \in {"up/a.txt", "samples/a.txt", "up/b.md", "up/c.pdf", "up/d.docx",
            "up/gone.txt", "up/blank.txt", "up/e.TXT", "up/NOTES.DOCX",
            "up/README", "up/w400.txt"} |->
     CASE p = "up/a.txt" ->
            [name |-> <<"a",".","t","x","t">>, exists |-> TRUE, pdf |-> FALSE,
             text |-> T_cat \o <<"SP">> \o T_dog
                        \o <<"NL","#","SP","I","n","t","r","o","NL">>
                        \o T_the \o <<"SP">> \o T_cat \o <<"SP","s","a","t">>,
             pages |-> <<>>]
       [] p = "samples/a.txt" ->
            [name |-> <<"a",".","t","x","t">>, exists |-> TRUE, pdf |-> FALSE,
             text |-> T_dog \o <<"SP">> \o T_dog, pages |-> <<>>]
       [] p = "up/b.md" ->
            [name |-> <<"b",".","m","d">>, exists |-> TRUE, pdf |-> FALSE,
             text |-> T_the \o <<"SP","o","f">>, pages |-> <<>>]
       [] p = "up/c.pdf" ->
            [name |-> <<"c",".","p","d","f">>, exists |-> TRUE, pdf |-> TRUE,
             text |-> <<>>,
             pages |-> << T_cat,
                          T_dog \o <<"NL","#","SP","C","a","t">>,
                          <<>>,
                          T_the \o <<"SP">> \o T_owl,
                          T_cat \o <<"SP">> \o T_cat \o <<".">> >>]
       [] p = "up/d.docx" ->
            [name |-> <<"d",".","d","o","c","x">>, exists |-> TRUE, pdf |-> FALSE,
             text |-> T_cat, pages |-> <<>>]
       [] p = "up/gone.txt" ->
            [name |-> <<"g","o","n","e",".","t","x","t">>, exists |-> FALSE,
             pdf |-> FALSE, text |-> <<>>, pages |-> <<>>]
       [] p = "up/blank.txt" ->
            [name |-> <<"b","l","a","n","k",".","t","x","t">>, exists |-> TRUE,
             pdf |-> FALSE, text |-> <<"SP","NL","TAB">>, pages |-> <<>>]
       [] p = "up/e.TXT" ->
            [name |-> <<"e",".","T","X","T">>, exists |-> TRUE, pdf |-> FALSE,
             text |-> T_owl, pages |-> <<>>]
       [] p = "up/NOTES.DOCX" ->
            [name |-> <<"N","O","T","E","S",".","D","O","C","X">>,
             exists |-> TRUE, pdf |-> FALSE, text |-> T_cat, pages |-> <<>>]
       [] p = "up/README" ->
            [name |-> <<"R","E","A","D","M","E">>, exists |-> TRUE,
             pdf |-> FALSE, text |-> T_cat, pages |-> <<>>]
       [] p = "up/w400.txt" ->
            [name |-> <<"w","4","0","0",".","t","x","t">>, exists |-> TRUE,
             pdf |-> FALSE, text |-> JoinSp(DocWords), pages |-> <<>>]]

Paths == DOMAIN FileTable

\* Path.name
PathName(path) == FileTable[path].name

\* Path.suffix: from the last dot of the name, unless the name has no dot,
\* starts with its only dot, or ends with the dot
PathSuffix(path) ==
    LET name == PathName(path)
        dots == {i \in 1..Len(name) : name[i] = "."}
    IN  IF dots = {} THEN <<>>
        ELSE LET i == CHOOSE x \in dots : \A y \in dots : y <= x
             IN  IF 1 < i /\ i < Len(name)
                 THEN SubSeq(name, i, Len(name)) ELSE <<>>

-----------------------------------------------------------------------------
\* parse_document (ingestion.py:19-40).  A result is [ok |-> TRUE, source,
\* pages] (a ParsedDocument, pages a list of <<page number, text>>) or
\* [ok |-> FALSE, error].

ParseError(e) == [ok |-> FALSE, error |-> e, source |-> <<>>, pages |-> <<>>]

parse_txt_or_md(path) ==
    IF ~FileTable[path].exists THEN ParseError("OSError")
    ELSE [ok |-> TRUE, error |-> "", source |-> PathName(path),
          pages |-> << <<1, FileTable[path].text>> >>]

parse_pdf(path) ==
    LET f == FileTable[path]
    IN  IF ~f.exists \/ ~f.pdf THEN ParseError("FileDataError")
        ELSE [ok |-> TRUE, error |-> "", source |-> PathName(path),
              pages |-> [i \in 1..Len(f.pages) |-> <<i, f.pages[i]>>]]

parse_documentMutAnyText(path) ==
    IF Lower(PathSuffix(path)) = <<".","p","d","f">>
    THEN parse_pdf(path) ELSE parse_txt_or_md(path)
parse_document(path) ==
    LET suffix == Lower(PathSuffix(path))
    IN  IF suffix \in {<<".","t","x","t">>, <<".","m","d">>}
        THEN parse_txt_or_md(path)
        ELSE IF suffix = <<".","p","d","f">>
        THEN parse_pdf(path)
        ELSE ParseError("ValueError")

-----------------------------------------------------------------------------
\* chunk_document (ingestion.py:73-89)

HexDigits == DecDigits \o <<"a","b","c","d","e","f">>

RECURSIVE IntToStr(_)
\* str(n) for n >= 0
IntToStr(n) ==
    IF n < 10 THEN <<DecDigits[n + 1]>>
    ELSE IntToStr(n \div 10) \o <<DecDigits[(n % 10) + 1]>>

\* f"{source}-chunk-{chunk_index}"
ChunkId(source, index) ==
    source \o <<"-","c","h","u","n","k","-">> \o IntToStr(index)

\* the <<page_no, piece>> pairs in the order the three nested loops visit them
PagePieces(page) ==
    LET sections == split_sections(page[2])
    IN  Concat([k \in 1..Len(sections) |->
            LET pieces == word_chunks(sections[k], DefaultChunkWords,
                                      DefaultOverlapWords)
            IN  [m \in 1..Len(pieces) |-> <<page[1], pieces[m]>>]])

chunk_document(parsed) ==
    LET flat == Concat([k \in 1..Len(parsed.pages) |-> PagePieces(parsed.pages[k])])
    IN  [i \in 1..Len(flat) |->
            [chunk_id |-> ChunkId(parsed.source, i),
             text |-> flat[i][2],
             source |-> parsed.source,
             page |-> flat[i][1]]]

-----------------------------------------------------------------------------
\* The store (store.py)

COLLECTION_NAME == "rag_chunks_v1"
\* the uids of the registered users
Users == {"u1", "u2"}
\* UserProfile.collection_name: f"rag_chunks_v1_{uid}"
collection_name(uid) == "rag_chunks_v1_" \o uid
UserCollection == collection_name("u1")
CollNames == {COLLECTION_NAME} \cup {collection_name(u) : u \in Users}

\* _current_collection_name: _active_collection_name or COLLECTION_NAME
current_collection_name(a) == IF a = "None" THEN COLLECTION_NAME ELSE a

NoCollection == [exists |-> FALSE, rows |-> <<>>]

\* get_collection: client.get_or_create_collection(name=...)
GetOrCreate(colls, name) ==
    IF colls[name].exists THEN colls
    ELSE [colls EXCEPT ![name] = [exists |-> TRUE, rows |-> <<>>]]

\* the collection reset_collection deletes
ResetTargetMutDefault(a) == COLLECTION_NAME
ResetTarget(a) == current_collection_name(a)

\* reset_collection: client.delete_collection(name); deleting a collection
\* that does not exist raises, and the exception is swallowed
reset_collection(colls, a) == [colls EXCEPT ![ResetTarget(a)] = NoCollection]

Ids(rows) == {rows[i].id : i \in 1..Len(rows)}

\* collection.add(ids=..., documents=..., metadatas=...)
CollectionAddMutDropFirst(rows, new) == rows \o Tail(new)
CollectionAddMutReplace(rows, new) == new
CollectionAdd(rows, new) == rows \o new

\* the characters of the file names in code point order, and str's "<"
AsciiSeq == <<"-", ".">> \o DecDigits \o UpperSeq \o <<"_">> \o LowerSeq
Ord(c) == CHOOSE i \in 1..Len(AsciiSeq) : AsciiSeq[i] = c
StrLess(a, b) ==
    \E k \in 1..(Min(Len(a), Len(b)) + 1) :
        /\ \A j \in 1..(k - 1) : a[j] = b[j]
        /\ IF k <= Min(Len(a), Len(b)) THEN Ord(a[k]) < Ord(b[k])
                                       ELSE Len(a) < Len(b)

\* list_indexed_sources (store.py:73-88) on the rows of the collection: one
\* entry per source with its number of chunks, sorted by source
list_indexed_sources(rows) ==
    IF Len(rows) = 0 THEN <<>>
    ELSE LET srcs == {rows[i].metadata.source : i \in 1..Len(rows)}
             cnt(src) == Cardinality({i \in 1..Len(rows) :
                                         rows[i].metadata.source = src})
             rank(src) == Cardinality({t \in srcs : StrLess(t, src)})
         IN  [r \in 1..Cardinality(srcs) |->
                 LET src == CHOOSE t \in srcs : rank(t) = r - 1
                 IN  [source |-> src, chunks |-> cnt(src)]]

\* the rows delete_source keeps: those whose metadata source differs
delete_source_rowsMutFirst(rows, source_name) ==
    LET hits == {i \in 1..Len(rows) : rows[i].metadata.source = source_name}
    IN  IF hits = {} THEN rows
        ELSE LET h == CHOOSE i \in hits : \A j \in hits : i <= j
             IN  SubSeq(rows, 1, h - 1) \o SubSeq(rows, h + 1, Len(rows))
delete_source_rowsMutAll(rows, source_name) ==
    IF \E i \in 1..Len(rows) : rows[i].metadata.source = source_name
    THEN <<>> ELSE rows
delete_source_rows(rows, source_name) ==
    SelectSeq(rows, LAMBDA r : r.metadata.source # source_name)

-----------------------------------------------------------------------------
\* ingest_paths (ingestion.py:92-124)

UuidHexLen == 10      \* uuid.uuid4().hex[:10]

RECURSIVE HexStr(_, _)
\* the last `width` hexadecimal digits of n, zero padded
HexStr(n, width) ==
    IF width = 0 THEN <<>>
    ELSE HexStr(n \div 16, width - 1) \o <<HexDigits[(n % 16) + 1]>>

\* uuid.uuid4().hex[:10]: the n-th value drawn; draws never repeat
Uuid4Hex(n) == HexStr(n, UuidHexLen)

\* f"{chunk['chunk_id']}-{uuid.uuid4().hex[:10]}"
StoreIdMutNoUuid(chunk_id, n) == chunk_id
StoreId(chunk_id, n) == chunk_id \o <<"-">> \o Uuid4Hex(n)

\* lines 104-118: the ids, documents and metadatas staged for one path,
\* the k-th chunk taking the (u0 + k)-th uuid
StagedRows(chunks, now, u0) ==
    [k \in 1..Len(chunks) |->
        [id |-> StoreId(chunks[k].chunk_id, u0 + k),
         document |-> chunks[k].text,
         metadata |-> [source |-> chunks[k].source,
                       page |-> IntToStr(chunks[k].page),
                       chunk_id |-> chunks[k].chunk_id,
                       ingested_at |-> now]]]

-----------------------------------------------------------------------------
\* Scores (retrieval.py).  A real x is kept as the integer round(x * SCALE);
\* ln comes from a table of round(ln(k) * SCALE).

SCALE == 10000

LnTable ==
   << 0, 6931, 10986, 13863, 16094, 17918, 19459, 20794,
      21972, 23026, 23979, 24849, 25649, 26391, 27081, 27726,
      28332, 28904, 29444, 29957, 30445, 30910, 31355, 31781,
      32189, 32581, 32958, 33322, 33673, 34012, 34340, 34657,
      34965, 35264, 35553, 35835, 36109, 36376, 36636, 36889,
      37136, 37377, 37612, 37842, 38067, 38286, 38501, 38712,
      38918, 39120, 39318, 39512, 39703, 39890, 40073, 40254,
      40431, 40604, 40775, 40943, 41109, 41271, 41431, 41589,
      41744, 41897, 42047, 42195, 42341, 42485, 42627, 42767,
      42905, 43041, 43175, 43307, 43438, 43567, 43694, 43820,
      43944, 44067, 44188, 44308, 44427, 44543, 44659, 44773,
      44886, 44998, 45109, 45218, 45326, 45433, 45539, 45643,
      45747, 45850, 45951, 46052, 46151, 46250, 46347, 46444,
      46540, 46634, 46728, 46821, 46913, 47005, 47095, 47185,
      47274, 47362, 47449, 47536, 47622, 47707, 47791, 47875,
      47958, 48040, 48122, 48203, 48283, 48363, 48442, 48520 >>

\* round(ln(num / den) * SCALE)
LnFP(num, den) == LnTable[num] - LnTable[den]

RECURSIVE ISqrtIn(_, _, _)
ISqrtIn(n, lo, hi) ==
    IF lo >= hi THEN lo
    ELSE LET mid == (lo + hi + 1) \div 2
         IN  IF mid * mid <= n THEN ISqrtIn(n, mid, hi)
                               ELSE ISqrtIn(n, lo, mid - 1)
\* floor(sqrt(n)), 0 <= n < 2^30
ISqrt(n) == ISqrtIn(n, 0, 32767)

RECURSIVE SumSeq(_)
SumSeq(xs) ==
    IF xs = <<>> THEN 0
    ELSE IF Len(xs) = 1 THEN xs[1]
    ELSE SumSeq(SubSeq(xs, 1, Len(xs) \div 2))
            + SumSeq(SubSeq(xs, (Len(xs) \div 2) + 1, Len(xs)))

SeqMin(xs) == CHOOSE x \in {xs[i] : i \in 1..Len(xs)} :
                  \A i \in 1..Len(xs) : x <= xs[i]
SeqMax(xs) == CHOOSE x \in {xs[i] : i \in 1..Len(xs)} :
                  \A i \in 1..Len(xs) : x >= xs[i]

\* how often x occurs in the list xs
Count(xs, x) == Cardinality({i \in 1..Len(xs) : xs[i] = x})
Elems(xs) == {xs[i] : i \in 1..Len(xs)}

\* _tokenize (retrieval.py:24-25): re.findall(r"[a-zA-Z0-9]+", text.lower())
tokenize(text) == SplitRuns(Lower(text), AlnumChars, 1, Len(text))

\* k1 = 1.5 and b = 0.75, as fractions
K1Num == 3
K1Den == 2
BNum == 3
BDen == 4

\* _bm25_scores (retrieval.py:28-58).  With avgdl = total / N,
\*   (tf * (k1 + 1)) / (tf + k1 * (1 - b + b * dl / avgdl))
\* is the fraction of integers
\*   tf (K1Num + K1Den) BDen total
\*   ------------------------------------------------------------------
\*   tf K1Den BDen total + K1Num (BDen - BNum) total + K1Num BNum dl N
\* and idf = ln(1 + (N - df + 0.5) / (df + 0.5)) = ln((2N + 2) / (2 df + 1)).
\* (avgdl and the denominator are positive wherever a query token occurs in
\* a document, so the max(1e-9, .) guards never bind.)
Bm25Idf(N, df) == LnFP(2 * N + 2, 2 * df + 1)

Bm25TermMutNoTf(tf, dl, N, total, df) ==
    (Bm25Idf(N, df) * ((K1Num + K1Den) * BDen * total))
        \div (tf * K1Den * BDen * total + K1Num * (BDen - BNum) * total
                + K1Num * BNum * dl * N)
Bm25Term(tf, dl, N, total, df) ==
    (Bm25Idf(N, df) * (tf * (K1Num + K1Den) * BDen * total))
        \div (tf * K1Den * BDen * total + K1Num * (BDen - BNum) * total
                + K1Num * BNum * dl * N)

bm25_scores(query, docs) ==
    LET tokenized_docs == [i \in 1..Len(docs) |-> tokenize(docs[i])]
        q_tokens == tokenize(query)
        N == Len(docs)
        total == SumSeq([i \in 1..N |-> Len(tokenized_docs[i])])
        doc_freq(t) == Cardinality({i \in 1..N : t \in Elems(tokenized_docs[i])})
    IN  IF docs = <<>> \/ q_tokens = <<>>
        THEN [i \in 1..Len(docs) |-> 0]
        ELSE [i \in 1..N |->
                LET d == tokenized_docs[i]
                IN  SumSeq([j \in 1..Len(q_tokens) |->
                        LET t == q_tokens[j]
                        IN  IF Count(d, t) = 0 THEN 0
                            ELSE Bm25Term(Count(d, t), Len(d), N, total,
                                          doc_freq(t))])]

\* TfidfVectorizer(stop_words="english", ngram_range=(1, 2)) (retrieval.py:65)
\* the words of sklearn's English stop list that the model's texts use
StopWords == { <<"t","h","e">>, <<"o","f">>, <<"a","n","d">>, <<"i","s">>,
               <<"t","o">>, <<"i","t">>, <<"i","n">> }
MinTokenLen == 2      \* token_pattern (?u)\b\w\w+\b

\* the analyzer: lower-case, runs of two or more word characters, stop words
\* removed, then the unigrams and the bigrams of what is left
TfidfTokens(text) ==
    SelectSeq(SplitRuns(Lower(text), AlnumChars \cup {"_"}, 1, Len(text)),
              LAMBDA w : Len(w) >= MinTokenLen /\ w \notin StopWords)
TfidfTerms(text) ==
    LET toks == TfidfTokens(text)
    IN  [i \in 1..Len(toks) |-> <<toks[i]>>]
          \o [i \in 1..(Len(toks) - 1) |-> <<toks[i], toks[i + 1]>>]

IdfScale == 100       \* tf-idf weights are kept as round(w * IdfScale)

\* df(t): the samples (documents and query) that hold the term t
TfidfDf(samples, t) ==
    Cardinality({i \in 1..Len(samples) :
                    \E k \in 1..Len(samples[i]) : samples[i][k] = t})

\* idf(t) = ln((1 + n) / (1 + df(t))) + 1 (smooth_idf), times IdfScale
TfidfIdf(samples, t) ==
    (LnFP(1 + Len(samples), 1 + TfidfDf(samples, t)) + SCALE)
        \div (SCALE \div IdfScale)

\* the tf-idf weight of term t in a sample: tf * idf
TfidfWeight(samples, sample, t) == Count(sample, t) * TfidfIdf(samples, t)

\* the dot product of the tf-idf rows of two samples: the sum over the
\* terms of a (each counted where it first occurs in a) of the product of
\* the two weights; the terms a does not hold contribute 0
TfidfDot(samples, a, b) ==
    SumSeq([k \in 1..Len(a) |->
                IF \E j \in 1..(k - 1) : a[j] = a[k] THEN 0
                ELSE TfidfWeight(samples, a, a[k]) * TfidfWeight(samples, b, a[k])])

\* cosine_similarity of the row of a document and the row of the query
\* (0 for a zero row), times SCALE
TfidfCos(samples, doc, q) ==
    LET na == ISqrt(TfidfDot(samples, doc, doc))
        nb == ISqrt(TfidfDot(samples, q, q))
    IN  IF na = 0 \/ nb = 0 THEN 0
        ELSE (((TfidfDot(samples, q, doc) * 40) \div na) * 250) \div nb

\* _semantic_scores (retrieval.py:61-70).  [ok |-> FALSE] when fit_transform
\* raises ValueError("empty vocabulary; ..."): no sample has a term.
\* Otherwise the cosine of the tf-idf rows of each document and the query,
\* over the n = N + 1 samples docs + [query].
semantic_scores(query, docs) ==
    IF docs = <<>> THEN [ok |-> TRUE, sims |-> <<>>]
    ELSE
    LET samples == [i \in 1..(Len(docs) + 1) |->
                        TfidfTerms(IF i <= Len(docs) THEN docs[i] ELSE query)]
        q == samples[Len(samples)]
        vocabulary == UNION {Elems(samples[i]) : i \in 1..Len(samples)}
    IN  IF vocabulary = {} THEN [ok |-> FALSE, sims |-> <<>>]
        ELSE [ok |-> TRUE,
              sims |-> [i \in 1..Len(docs) |->
                            TfidfCos(samples, samples[i], q)]]

\* _normalize (retrieval.py:73-79) on scores that are whole numbers of some
\* unit, eps being 1e-12 in that unit (rounded up to a whole number): the
\* test abs(high - low) < 1e-12 is span < eps.  The result is in units of
\* 1 / SCALE.
NormalizeInMutZero(scores, eps) ==
    IF Len(scores) = 0 THEN scores
    ELSE LET low == SeqMin(scores)
             span == SeqMax(scores) - low
         IN  [i \in 1..Len(scores) |->
                 IF span < eps THEN 0 ELSE ((scores[i] - low) * SCALE) \div span]
NormalizeIn(scores, eps) ==
    IF Len(scores) = 0 THEN scores
    ELSE LET low == SeqMin(scores)
             high == SeqMax(scores)
             span == high - low
         IN  IF span < eps
             THEN [i \in 1..Len(scores) |-> SCALE \div 2]
             ELSE [i \in 1..Len(scores) |->
                     LET a == (scores[i] - low) * 1000
                     IN  (a \div span) * 10 + ((a % span) * 10) \div span]

\* _normalize on the scores of the pipeline, kept in units of 1 / SCALE:
\* 1e-12 is less than one unit, so span < 1e-12 exactly when span < 1
normalize(scores) == NormalizeIn(scores, 1)

\* hybrid = 0.45 * bm25 + 0.55 * semantic, kept as round(x * 100 * SCALE)
LexWeight == 45
SemWeight == 55
HybridMutSwapped(bm25, semantic) ==
    [i \in 1..Len(bm25) |-> SemWeight * bm25[i] + LexWeight * semantic[i]]
Hybrid(bm25, semantic) ==
    [i \in 1..Len(bm25) |-> LexWeight * bm25[i] + SemWeight * semantic[i]]

-----------------------------------------------------------------------------
\* Candidate selection and reranking (retrieval.py:82-141)

\* sorted(xs, key=..., reverse=True), keys[i] being the key of xs[i]:
\* descending by key, equal keys keeping their order (Python's sort is
\* stable, also when reversed)
SortedDesc(xs, keys) ==
    LET before(j, i) == keys[j] > keys[i] \/ (keys[j] = keys[i] /\ j < i)
        rank(i) == Cardinality({j \in 1..Len(xs) : before(j, i)})
    IN  [r \in 1..Len(xs) |-> xs[CHOOSE i \in 1..Len(xs) : rank(i) = r - 1]]

\* np.argsort(-hybrid): the indices by descending hybrid score.  The default
\* kind is quicksort, which is not stable: the order of equal scores depends on
\* the numpy build.  `tie` says how a build orders them.
TieOrders == {"index_ascending", "index_descending"}
ArgsortDesc(hybrid, tie) ==
    LET before(j, i) ==
            \/ hybrid[j] > hybrid[i]
            \/ /\ hybrid[j] = hybrid[i]
               /\ IF tie = "index_ascending" THEN j < i ELSE j > i
        rank(i) == Cardinality({j \in 1..Len(hybrid) : before(j, i)})
    IN  [r \in 1..Len(hybrid) |-> CHOOSE i \in 1..Len(hybrid) : rank(i) = r - 1]

PoolFactor == 4       \* top_k * 4
PoolFloor == 8        \* max(..., 8)

\* candidate_count = min(len(docs), max(top_k * 4, 8))
CandidateCount(n, top_k) == Min(n, Max(top_k * PoolFactor, PoolFloor))

\* _heuristic_rerank (retrieval.py:82-90).  With m = max(1, len(q_terms)) the
\* key 0.8 * score + 0.2 * overlap is, times 10 m, 8 m score + 2 |q & d|
\* (score in units of 1 / (100 SCALE)).
heuristic_rerankMutRescore(query, candidates) ==
    LET q_terms == Elems(tokenize(query))
        m == Max(1, Cardinality(q_terms))
        score(c) == 8 * m * c.score
                      + 2 * Cardinality(q_terms \cap Elems(tokenize(c.text)))
                          * (100 * SCALE)
        rescored == [i \in 1..Len(candidates) |->
                        [candidates[i] EXCEPT !.score = score(candidates[i])]]
    IN  SortedDesc(rescored, [i \in 1..Len(rescored) |-> rescored[i].score])
heuristic_rerankMutScoreOnly(query, candidates) ==
    SortedDesc(candidates, [i \in 1..Len(candidates) |-> candidates[i].score])
heuristic_rerankMutAscending(query, candidates) ==
    LET q_terms == Elems(tokenize(query))
        m == Max(1, Cardinality(q_terms))
        score(c) == 0 - (8 * m * c.score
                           + 2 * Cardinality(q_terms \cap Elems(tokenize(c.text)))
                               * (100 * SCALE))
    IN  SortedDesc(candidates, [i \in 1..Len(candidates) |-> score(candidates[i])])
heuristic_rerank(query, candidates) ==
    LET q_terms == Elems(tokenize(query))
        m == Max(1, Cardinality(q_terms))
        score(c) == 8 * m * c.score
                      + 2 * Cardinality(q_terms \cap Elems(tokenize(c.text)))
                          * (100 * SCALE)
    IN  SortedDesc(candidates, [i \in 1..Len(candidates) |-> score(candidates[i])])

\* The environment of the reranker: ENABLE_CROSS_ENCODER = "1", whether
\* sentence_transformers imports, whether loading or predicting raises, and
\* the scores the model predicts (one per pair).
RerankEnvs ==
    { [enabled |-> FALSE, importable |-> TRUE,  raises |-> FALSE, model |-> "length"],
      [enabled |-> TRUE,  importable |-> FALSE, raises |-> FALSE, model |-> "length"],
      [enabled |-> TRUE,  importable |-> TRUE,  raises |-> TRUE,  model |-> "length"],
      [enabled |-> TRUE,  importable |-> TRUE,  raises |-> FALSE, model |-> "length"],
      [enabled |-> TRUE,  importable |-> TRUE,  raises |-> FALSE, model |-> "position"] }

\* the external model is not used: disabled, not importable, or raising
FallsBack(env) == ~env.enabled \/ ~env.importable \/ env.raises

\* An installation: the reranker's environment and the numpy build's tie order
Deployments == [env : RerankEnvs, tie : TieOrders]
DefaultDeployment ==
    [env |-> [enabled |-> FALSE, importable |-> TRUE, raises |-> FALSE,
              model |-> "length"],
     tie |-> "index_ascending"]

\* model.predict(pairs): an external model, here one that scores a pair by
\* the length of the text or by its position in the list, or ("short") one
\* that returns a score for every pair but the last
Predict(model, query, candidates) ==
    IF model = "short"
    THEN [i \in 1..(Len(candidates) - 1) |-> i]
    ELSE [i \in 1..Len(candidates) |->
             IF model = "length" THEN Len(candidates[i].text) ELSE i]

\* _cross_encoder_rerank (retrieval.py:93-111); zip(candidates, scores) ends
\* with the shorter of the two
CrossEncoderRerankMutNoFallback(query, candidates, env) ==
    IF ~env.enabled THEN heuristic_rerank(query, candidates)
    ELSE IF ~env.importable \/ env.raises THEN candidates
    ELSE LET scores == Predict(env.model, query, candidates)
             pairs == [i \in 1..Min(Len(candidates), Len(scores)) |->
                          <<candidates[i], scores[i]>>]
             ranked == SortedDesc(pairs, [i \in 1..Len(pairs) |-> pairs[i][2]])
         IN  [i \in 1..Len(ranked) |-> ranked[i][1]]
cross_encoder_rerank(query, candidates, env) ==
    IF ~env.enabled THEN heuristic_rerank(query, candidates)
    ELSE IF ~env.importable THEN heuristic_rerank(query, candidates)
    ELSE IF env.raises THEN heuristic_rerank(query, candidates)
    ELSE LET scores == Predict(env.model, query, candidates)
             pairs == [i \in 1..Min(Len(candidates), Len(scores)) |->
                          <<candidates[i], scores[i]>>]
             ranked == SortedDesc(pairs, [i \in 1..Len(pairs) |-> pairs[i][2]])
         IN  [i \in 1..Len(ranked) |-> ranked[i][1]]

\* retrieve_hybrid, lines 135-141: the candidates in the order of idxs, the
\* reranker, and the cut to top_k.  The result records how the call ended,
\* and the hybrid scores and the candidates it went through.
RetrieveSelect(rows, query, top_k, env, hybrid, idxs) ==
    LET candidates == [k \in 1..Len(idxs) |->
                          [doc_id |-> rows[idxs[k]].id,
                           text |-> rows[idxs[k]].document,
                           metadata |-> rows[idxs[k]].metadata,
                           score |-> hybrid[idxs[k]]]]
    IN  [status |-> "returned",
         value |-> PySlice(cross_encoder_rerank(query, candidates, env), 0, top_k),
         hybrid |-> hybrid, candidates |-> candidates]

\* lines 132-133: candidate_count and idxs = np.argsort(-hybrid)[:candidate_count]
RetrieveRank(rows, query, top_k, tie, env, hybrid) ==
    RetrieveSelect(rows, query, top_k, env, hybrid,
                   PySlice(ArgsortDesc(hybrid, tie), 0,
                           CandidateCount(Len(rows), top_k)))

\* lines 127-130: the length check and the hybrid scores
RetrieveScoreMutPad(rows, query, top_k, tie, env, bm25, semantic) ==
    RetrieveRank(rows, query, top_k, tie, env,
                 Hybrid(bm25, [i \in 1..Len(bm25) |->
                                 IF i <= Len(semantic) THEN semantic[i] ELSE 0]))
RetrieveScore(rows, query, top_k, tie, env, bm25, semantic) ==
    RetrieveRank(rows, query, top_k, tie, env,
                 Hybrid(bm25, IF Len(semantic) # Len(bm25)
                              THEN [i \in 1..Len(bm25) |-> 0] ELSE semantic))

\* lines 121-125: no documents returns []; the two score lists, or the
\* exception of _semantic_scores leaving retrieve_hybrid
RetrieveDocs(rows, docs, query, top_k, tie, env, sem) ==
    IF docs = <<>>
    THEN [status |-> "returned", value |-> <<>>,
          hybrid |-> <<>>, candidates |-> <<>>]
    ELSE IF ~sem.ok
    THEN [status |-> "raised", value |-> "ValueError",
          hybrid |-> <<>>, candidates |-> <<>>]
    ELSE RetrieveScore(rows, query, top_k, tie, env,
                       normalize(bm25_scores(query, docs)), normalize(sem.sims))

\* retrieve_hybrid (retrieval.py:114-141) on the rows collection.get returns
retrieve_hybridMutSkipLast(rows, query, top_k, tie, env) ==
    RetrieveDocs(SubSeq(rows, 1, Len(rows) - 1),
                 [i \in 1..(Len(rows) - 1) |-> rows[i].document],
                 query, top_k, tie, env,
                 semantic_scores(query, [i \in 1..(Len(rows) - 1) |-> rows[i].document]))
retrieve_hybrid(rows, query, top_k, tie, env) ==
    RetrieveDocs(rows, [i \in 1..Len(rows) |-> rows[i].document],
                 query, top_k, tie, env,
                 semantic_scores(query, [i \in 1..Len(rows) |-> rows[i].document]))

-----------------------------------------------------------------------------
\* Specification Spec: one session of the application issuing operations one
\* after the other; ingest_paths advances one path per step.

MaxIngestCalls == 2      \* ingest_paths calls in one behaviour

\* the path lists handed to ingest_paths
Batches ==
    { <<"up/a.txt">>,
      <<"up/b.md">>,
      <<"up/a.txt", "samples/a.txt">>,
      <<"up/c.pdf", "up/c.pdf">>,
      <<"up/blank.txt", "up/a.txt", "up/d.docx", "up/b.md">>,
      <<"up/c.pdf", "up/gone.txt">>,
      <<"up/e.TXT", "up/NOTES.DOCX">>,
      <<"up/blank.txt", "up/b.md">> }

\* the source names handed to delete_source
\* what the users of SpecUsers upload
UserBatches == {<<"up/a.txt">>, <<"up/c.pdf", "up/d.docx">>}

SourceNames == {PathName(p) : p \in {"up/a.txt", "up/c.pdf", "up/gone.txt"}}

NoCall ==
    [paths |-> <<>>, reset |-> FALSE, i |-> 0, coll |-> COLLECTION_NAME,
     now |-> 0, total |-> 0, before |-> {}, base |-> 0,
     written |-> <<>>, parsed |-> <<>>]

AppInit ==
    /\ collections = [n \in CollNames |-> NoCollection]
    /\ active = "None"
    /\ pc = "idle"
    /\ call = NoCall
    /\ ret = [op |-> "none", status |-> "none"]
    /\ clock = 0
    /\ uuidCtr = 0
    /\ hist = <<>>
    /\ asked = 0

\* the _word_chunks loop is not running
WCIdle ==
    /\ wc_words = <<>> /\ wc_cw = 0 /\ wc_ow = 0
    /\ wc_start = 0 /\ wc_out = <<>> /\ wc_pc = "done"

\* no function call of SpecFn is under way
FnIdle == fn_in = [op |-> "none"] /\ fn_out = [done |-> FALSE]

\* no script run of a logged-in user is under way
SessIdle == sess = [u \in Users |-> "out"]

\* the browser sessions showing the Register form
Registrants == {"s1", "s2"}

\* _get_db on a fresh DATA_DIR: table users is empty; no register_user call
\* has been made
NoRegistration ==
    [pc |-> "idle", username |-> <<>>, calls |-> 0, result |-> "none", uid |-> 0]
RegIdle == users_db = {} /\ reg = [s \in Registrants |-> NoRegistration]

Init == AppInit /\ WCIdle /\ FnIdle /\ SessIdle /\ RegIdle /\ deploy = DefaultDeployment
QueryInit == AppInit /\ WCIdle /\ FnIdle /\ SessIdle /\ RegIdle /\ deploy \in Deployments

\* set_active_collection(name) (store.py:19-22; main.py:151, 166, 196)
SetActiveCollection(name) ==
    /\ pc = "idle"
    /\ active # name
    /\ active' = name
    /\ ret' = [op |-> "set_active_collection", status |-> "returned"]
    /\ UNCHANGED <<collections, pc, call, clock, uuidCtr, hist, deploy, asked, wc_vars, fn_vars, sess, reg_vars>>

\* ingest_paths, lines 93-98: reset, get_collection, now, total = 0.
\* `before`, `base`, `written` and `parsed` record the call for the claims.
IngestBegin(paths, reset_index) ==
    /\ pc = "idle"
    /\ LET name == current_collection_name(active)
           c1 == IF reset_index THEN reset_collection(collections, active)
                                ELSE collections
           c2 == GetOrCreate(c1, name)
       IN  /\ collections' = c2
           /\ call' = [paths |-> paths, reset |-> reset_index, i |-> 1,
                       coll |-> name, now |-> clock + 1, total |-> 0,
                       before |-> Ids(collections[name].rows),
                       base |-> Len(c2[name].rows),
                       written |-> <<>>, parsed |-> <<>>]
    /\ clock' = clock + 1
    /\ pc' = "ingest"
    /\ ret' = [op |-> "ingest_paths", status |-> "running"]
    /\ UNCHANGED <<active, uuidCtr, hist, deploy, asked, wc_vars, fn_vars, sess, reg_vars>>

\* lines 100-101: parse_document(path) raises; the exception leaves ingest_paths
IngestPathRaise ==
    /\ pc = "ingest"
    /\ call.i <= Len(call.paths)
    /\ LET parsed == parse_document(call.paths[call.i])
           done == [call EXCEPT !.parsed = Append(@, call.i)]
       IN  /\ ~parsed.ok
           /\ call' = done
           /\ hist' = Append(hist, [call |-> done, status |-> "raised"])
           /\ ret' = [op |-> "ingest_paths", status |-> "raised",
                      value |-> parsed.error]
    /\ pc' = "idle"
    /\ UNCHANGED <<collections, active, clock, uuidCtr, deploy, asked, wc_vars, fn_vars, sess, reg_vars>>

\* lines 100-122: one path parsed, chunked, staged and added
IngestPathCommit ==
    /\ pc = "ingest"
    /\ call.i <= Len(call.paths)
    /\ LET parsed == parse_document(call.paths[call.i])
       IN  /\ parsed.ok
           /\ LET new == StagedRows(chunk_document(parsed), call.now, uuidCtr)
              IN  /\ uuidCtr' = uuidCtr + Len(new)
                  /\ collections' =
                        IF new # <<>>
                        THEN [collections EXCEPT ![call.coll].rows =
                                                    CollectionAdd(@, new)]
                        ELSE collections
                  /\ call' = [call EXCEPT !.i = @ + 1,
                                          !.total = @ + Len(new),
                                          !.written = Append(@, new),
                                          !.parsed = Append(@, call.i)]
    /\ UNCHANGED <<active, pc, ret, clock, hist, deploy, asked, wc_vars, fn_vars, sess, reg_vars>>

\* line 124: return total
IngestReturn ==
    /\ pc = "ingest"
    /\ call.i > Len(call.paths)
    /\ pc' = "idle"
    /\ ret' = [op |-> "ingest_paths", status |-> "returned", value |-> call.total]
    /\ hist' = Append(hist, [call |-> call, status |-> "returned"])
    /\ UNCHANGED <<collections, active, call, clock, uuidCtr, deploy, asked, wc_vars, fn_vars, sess, reg_vars>>

\* delete_source(source_name) (store.py:91-105)
DeleteSource(source_name) ==
    /\ pc = "idle"
    /\ LET name == current_collection_name(active)
           c1 == GetOrCreate(collections, name)
           kept == delete_source_rows(c1[name].rows, source_name)
       IN  /\ collections' = [c1 EXCEPT ![name].rows = kept]
           /\ ret' = [op |-> "delete_source", status |-> "returned",
                      source |-> source_name, coll |-> name,
                      value |-> Len(c1[name].rows) - Len(kept)]
    /\ UNCHANGED <<active, pc, call, clock, uuidCtr, hist, deploy, asked, wc_vars, fn_vars, sess, reg_vars>>

\* "Clear All" (main.py:305-308): reset_collection()
ResetCollection ==
    /\ pc = "idle"
    /\ collections' = reset_collection(collections, active)
    /\ ret' = [op |-> "reset_collection", status |-> "returned"]
    /\ UNCHANGED <<active, pc, call, clock, uuidCtr, hist, deploy, asked, wc_vars, fn_vars, sess, reg_vars>>

\* what the session keeps of a retrieve_hybrid call
RetrieveRet(name, query, top_k, r) ==
    [op |-> "retrieve_hybrid", status |-> r.status, value |-> r.value,
     coll |-> name, query |-> query, top_k |-> top_k,
     hybrid |-> r.hybrid, candidates |-> r.candidates]

\* retrieve_hybrid(query, top_k) (retrieval.py:114-141; main.py:424);
\* get_collection (line 115) creates the collection when it is missing
RetrieveHybrid(query, top_k) ==
    /\ pc = "idle"
    /\ collections' = GetOrCreate(collections, current_collection_name(active))
    /\ ret' = RetrieveRet(current_collection_name(active), query, top_k,
                  retrieve_hybrid(collections'[current_collection_name(active)].rows,
                                  query, top_k, deploy.tie, deploy.env))
    /\ asked' = asked + 1
    /\ UNCHANGED <<active, pc, call, clock, uuidCtr, hist, deploy, wc_vars, fn_vars, sess, reg_vars>>

\* the operations on the store and the ingestion steps
StoreNext ==
    \/ \E name \in {UserCollection, "None"} : SetActiveCollection(name)
    \/ IngestPathRaise
    \/ IngestPathCommit
    \/ IngestReturn
    \/ \E source_name \in SourceNames : DeleteSource(source_name)
    \/ ResetCollection

Next ==
    \/ StoreNext
    \/ /\ clock < MaxIngestCalls
       /\ \E paths \in Batches : \E reset_index \in BOOLEAN :
              IngestBegin(paths, reset_index)

Spec == Init /\ [][Next]_vars

\* Specification SpecQuery: a session that ingests uploads the way the page
\* does (main.py:256, reset_index=False) and asks questions over what the
\* store then holds, under each deployment.
MaxQueryIngests == 1     \* ingest_paths calls in one behaviour of SpecQuery
MaxQueries == 1          \* retrieve_hybrid calls in one behaviour
MaxTopK == 2             \* largest top_k asked for
DefaultTopK == 5         \* retrieve_hybrid(query, top_k=5)

Queries == { T_cat, T_the, <<"z","z">> }

QueryNext ==
    \/ IngestPathRaise
    \/ IngestPathCommit
    \/ IngestReturn
    \/ /\ clock < MaxQueryIngests
       /\ \E paths \in Batches : IngestBegin(paths, FALSE)
    \/ /\ asked < MaxQueries
       /\ \E query \in Queries : \E top_k \in 0..MaxTopK :
              RetrieveHybrid(query, top_k)

SpecQuery == QueryInit /\ [][QueryNext]_vars

-----------------------------------------------------------------------------
\* Specification SpecFresh: one session that ingests, deletes sources, clears
\* the index and asks questions in any order, under the default deployment.
MaxFreshIngests == 2     \* ingest_paths calls in one behaviour of SpecFresh
MaxFreshQueries == 2     \* retrieve_hybrid calls in one behaviour

FreshNext ==
    \/ IngestPathRaise
    \/ IngestPathCommit
    \/ IngestReturn
    \/ /\ clock < MaxFreshIngests
       /\ \E paths \in UserBatches : IngestBegin(paths, FALSE)
    \/ \E source_name \in SourceNames : DeleteSource(source_name)
    \/ ResetCollection
    \/ /\ asked < MaxFreshQueries
       /\ RetrieveHybrid(T_cat, DefaultTopK)

SpecFresh == Init /\ [][FreshNext]_vars

-----------------------------------------------------------------------------
\* Specification SpecRegister: browser sessions submitting the Register form.
\* Streamlit runs each session's script in a thread of its own, and
\* register_user opens a connection of its own per call, so the statements
\* of two calls interleave at the database: the SELECT of line 71 and the
\* INSERT of lines 80-84 are separate steps.

MaxRegistrations == 2    \* register_user calls per session in one behaviour

\* str.strip(): leading and trailing whitespace removed
RECURSIVE Strip(_)
Strip(text) ==
    IF text = <<>> THEN <<>>
    ELSE IF text[1] \in SpaceChars THEN Strip(Tail(text))
    ELSE IF text[Len(text)] \in SpaceChars THEN Strip(SubSeq(text, 1, Len(text) - 1))
    ELSE text

\* what the sessions type into the form
RawUsernames ==
    { <<"b","o","b">>, <<"SP","B","o","b","NL">>, <<"B","O","B">>,
      <<"a","l">>, <<"SP">> }
RawPasswords == { <<"p","w","1">>, <<>> }

\* SELECT uid FROM users WHERE username = ? ... fetchone() is not None
UsernameTaken(rows, username) == \E row \in rows : row.username = username

\* lines 65-67: the username is normalised; an empty username or password
\* returns None before the database is opened
RegisterCall(s, username, password) ==
    /\ reg[s].pc = "idle"
    /\ reg[s].calls < MaxRegistrations
    /\ LET name == Lower(Strip(username))
       IN  reg' = [reg EXCEPT ![s] =
                IF name = <<>> \/ password = <<>>
                THEN [pc |-> "idle", username |-> name, calls |-> @.calls + 1,
                      result |-> "None", uid |-> 0]
                ELSE [pc |-> "select", username |-> name, calls |-> @.calls + 1,
                      result |-> "none", uid |-> 0]]
    /\ UNCHANGED <<users_db, wc_vars, app_vars, fn_vars, sess>>

\* lines 69-74: _get_db, the SELECT, and the early return
RegisterSelect(s) ==
    /\ reg[s].pc = "select"
    /\ reg' = [reg EXCEPT ![s] =
            IF UsernameTaken(users_db, @.username)
            THEN [@ EXCEPT !.pc = "idle", !.result = "None"]
            ELSE [@ EXCEPT !.pc = "insert"]]
    /\ UNCHANGED <<users_db, wc_vars, app_vars, fn_vars, sess>>

\* lines 76-89: the INSERT and the commit.  Column username is UNIQUE
\* (line 53): the INSERT of a username that a row already holds raises
\* sqlite3.IntegrityError, which register_user does not catch.
RegisterInsert(s) ==
    /\ reg[s].pc = "insert"
    /\ IF UsernameTaken(users_db, reg[s].username)
       THEN /\ reg' = [reg EXCEPT ![s] =
                    [@ EXCEPT !.pc = "idle", !.result = "IntegrityError"]]
            /\ UNCHANGED users_db
       ELSE LET uid == Cardinality(users_db) + 1
            IN  /\ users_db' = users_db \cup
                        {[uid |-> uid, username |-> reg[s].username]}
                /\ reg' = [reg EXCEPT ![s] =
                        [@ EXCEPT !.pc = "idle", !.result = "profile", !.uid = uid]]
    /\ UNCHANGED <<wc_vars, app_vars, fn_vars, sess>>

RegisterNext ==
    \/ \E s \in Registrants, username \in RawUsernames, password \in RawPasswords :
            RegisterCall(s, username, password)
    \/ \E s \in Registrants : RegisterSelect(s)
    \/ \E s \in Registrants : RegisterInsert(s)

SpecRegister == Init /\ [][RegisterNext]_vars

-----------------------------------------------------------------------------
\* Specification SpecUsers: two logged-in users of one Streamlit process.
\* Every script run of a user is a thread of the process; app.store is
\* imported once, so _active_collection_name is shared by all of them.
MaxUserIngests == 2      \* ingest_paths calls in one behaviour of SpecUsers
MaxUserQueries == 2      \* retrieve_hybrid calls in one behaviour

\* some user's script run has reached a pipeline call that has not started
Calling == ret.op = "none" /\ \E u \in Users : sess[u] = "call"

\* _show_main_app, line 196: the script run of user u starts and sets the
\* process-wide active collection to the user's
ScriptRun(u) ==
    /\ sess[u] = "out"
    /\ active' = collection_name(u)
    /\ sess' = [sess EXCEPT ![u] = "body"]
    /\ UNCHANGED <<collections, pc, call, ret, clock, uuidCtr, hist, deploy, asked, wc_vars, fn_vars, reg_vars>>

\* the script run of user u reaches one of its pipeline calls (main.py:256,
\* 277, 300, 424); the calls of the two users are taken one at a time
ScriptCall(u) ==
    /\ sess[u] = "body"
    /\ pc = "idle"
    /\ \A v \in Users : sess[v] # "call"
    /\ sess' = [sess EXCEPT ![u] = "call"]
    /\ ret' = [op |-> "none", status |-> "none"]
    /\ UNCHANGED <<collections, active, pc, call, clock, uuidCtr, hist, deploy, asked, wc_vars, fn_vars, reg_vars>>

\* the call has returned or raised and the script run of user u ends
ScriptEnd(u) ==
    /\ sess[u] = "call"
    /\ pc = "idle"
    /\ ret.op # "none"
    /\ sess' = [sess EXCEPT ![u] = "out"]
    /\ UNCHANGED <<collections, active, pc, call, ret, clock, uuidCtr, hist, deploy, asked, wc_vars, fn_vars, reg_vars>>

UsersNext ==
    \/ \E u \in Users : ScriptRun(u)
    \/ \E u \in Users : ScriptCall(u)
    \/ \E u \in Users : ScriptEnd(u)
    \/ /\ Calling
       /\ clock < MaxUserIngests
       /\ \E paths \in UserBatches : IngestBegin(paths, FALSE)
    \/ IngestPathRaise
    \/ IngestPathCommit
    \/ IngestReturn
    \/ /\ Calling
       /\ \E source_name \in SourceNames : DeleteSource(source_name)
    \/ /\ Calling
       /\ asked < MaxUserQueries
       /\ \E query \in {T_cat} : RetrieveHybrid(query, MaxTopK)

SpecUsers == Init /\ [][UsersNext]_vars

-----------------------------------------------------------------------------
\* Specification SpecE2E: the long document is ingested into the empty store
\* (alone, or behind a file that does not parse, which leaves the store
\* empty) and one term of it is asked for, with the reranker of the
\* deployment.
MaxE2EIngests == 1       \* ingest_paths calls in one behaviour of SpecE2E
MaxE2EQueries == 1       \* retrieve_hybrid calls in one behaviour

E2EBatches == {<<"up/w400.txt">>, <<"up/d.docx", "up/w400.txt">>}
\* the positions of the words asked for: in the first window only, in the
\* overlap of the two windows, in the second window only
E2ETerms == {0, 259, 260, 319, 320}
E2EQueries == {WordNo(i) : i \in E2ETerms}
E2EDeployments == {d \in Deployments : d.tie = "index_ascending"}

E2EInit == AppInit /\ WCIdle /\ FnIdle /\ SessIdle /\ RegIdle /\ deploy \in E2EDeployments

E2ENext ==
    \/ IngestPathRaise
    \/ IngestPathCommit
    \/ IngestReturn
    \/ /\ clock < MaxE2EIngests
       /\ \E paths \in E2EBatches : IngestBegin(paths, FALSE)
    \/ /\ asked < MaxE2EQueries
       /\ \E query \in E2EQueries : RetrieveHybrid(query, DefaultTopK)

SpecE2E == E2EInit /\ [][E2ENext]_vars

-----------------------------------------------------------------------------
\* Specification SpecWC: _word_chunks run one loop iteration at a time over
\* sections of distinct words 1..W.

WCConfigs ==
    {<<DefaultChunkWords, DefaultOverlapWords>>}
        \cup (((0 - MaxNegCw)..MaxCw) \X ((0 - MaxNegOw)..MaxOw))

WCInputs ==
    {<<w, c>> \in (0..MaxWords) \X WCConfigs :
        c = <<DefaultChunkWords, DefaultOverlapWords>> \/ w <= MaxSmallWords}

WCInit ==
    \E inp \in WCInputs :
        /\ wc_words = [i \in 1..inp[1] |-> i]
        /\ wc_cw = inp[2][1]
        /\ wc_ow = inp[2][2]
        /\ wc_start = 0
        /\ wc_out = <<>>
        /\ wc_pc = "call"
        /\ AppInit /\ FnIdle /\ SessIdle /\ RegIdle
        /\ deploy = DefaultDeployment

\* lines 60-63: words = text.split(); if not words: return; start = 0
WCEnter ==
    /\ wc_pc = "call"
    /\ wc_pc' = IF wc_words = <<>> THEN "done" ELSE "loop"
    /\ UNCHANGED <<wc_words, wc_cw, wc_ow, wc_start, wc_out, app_vars, fn_vars, sess, reg_vars>>

\* lines 65-70: one iteration of the while loop
WCIterate ==
    /\ wc_pc = "loop"
    /\ wc_start < Len(wc_words)
    /\ wc_out' = Append(wc_out, WCPiece(wc_words, wc_start, wc_cw))
    /\ IF WCLast(wc_words, wc_start, wc_cw)
       THEN /\ wc_pc' = "done"
            /\ UNCHANGED wc_start
       ELSE /\ wc_start' = wc_start + WCStep(wc_cw, wc_ow)
            /\ UNCHANGED wc_pc
    /\ UNCHANGED <<wc_words, wc_cw, wc_ow, app_vars, fn_vars, sess, reg_vars>>

\* line 65: the loop condition fails
WCExit ==
    /\ wc_pc = "loop"
    /\ ~(wc_start < Len(wc_words))
    /\ wc_pc' = "done"
    /\ UNCHANGED <<wc_words, wc_cw, wc_ow, wc_start, wc_out, app_vars, fn_vars, sess, reg_vars>>

WCNext == WCEnter \/ WCIterate \/ WCExit

SpecWC == WCInit /\ [][WCNext]_vars

\* SpecWC with the generator run to its end: the interpreter keeps executing
\* the loop while a statement is left to execute
SpecWCLive == WCInit /\ [][WCNext]_vars /\ WF_vars(WCNext)

-----------------------------------------------------------------------------
\* Claims about _word_chunks (checked under SpecWC)

WCDone == wc_pc = "done"
WCWordCount == Len(wc_words)
\* the words (identified by position, 1..W) that window w holds
WCRange(w) == {w[k] : k \in 1..Len(w)}
CeilDiv(a, b) == (a + b - 1) \div b

\* C1: for a section of W >= 1 words and chunk_words > overlap_words >= 0,
\* the windows together cover every word of the section and the last window
\* ends exactly at the section's last word.
C1_FullCoverage ==
    (WCDone /\ WCWordCount >= 1 /\ wc_cw > wc_ow /\ wc_ow >= 0) =>
        /\ wc_out # <<>>
        /\ UNION {WCRange(wc_out[i]) : i \in 1..Len(wc_out)} = 1..WCWordCount
        /\ LET last == wc_out[Len(wc_out)]
           IN  last # <<>> /\ last[Len(last)] = WCWordCount

\* C1 witness: a finished run whose last window is shorter than chunk_words
C1_Witness ==
    /\ WCDone /\ wc_cw > wc_ow /\ wc_ow >= 1
    /\ Len(wc_out) >= 3
    /\ Len(wc_out[Len(wc_out)]) < wc_cw

\* C2: with chunk_words = 320 and overlap_words = 60 a section of W > 0 words
\* yields ceil(max(0, W - 320) / 260) + 1 chunks and an empty section none;
\* W = 400 yields words [0,320) and [260,400), the second of length 140.
C2_ChunkCount ==
    (WCDone /\ wc_cw = 320 /\ wc_ow = 60) =>
        /\ Len(wc_out) = IF WCWordCount = 0 THEN 0
                         ELSE CeilDiv(Max(0, WCWordCount - 320), 260) + 1
        /\ WCWordCount = 400 =>
              /\ wc_out = <<[i \in 1..320 |-> i], [i \in 1..140 |-> 260 + i]>>
              /\ Len(wc_out[2]) = 140

\* C2 witness: the 400-word section, windowed into two chunks
C2_Witness ==
    WCDone /\ wc_cw = 320 /\ wc_ow = 60 /\ WCWordCount = 400 /\ Len(wc_out) = 2

\* C3 as claimed: under chunk_words <= overlap_words no chunk is ever produced
\* (the configuration is rejected).
C3_RejectedAsClaimed == (wc_cw <= wc_ow) => wc_out = <<>>

\* C3 amended: chunk_words <= overlap_words is not rejected; the step is
\* clamped to 1, so every non-empty section still yields windows, the i-th
\* being words[i-1 : min(W, i-1+chunk_words)].
C3_StepClampedToOne ==
    (WCDone /\ wc_cw <= wc_ow /\ WCWordCount >= 1) =>
        /\ Len(wc_out) >= 1
        /\ \A i \in 1..Len(wc_out) :
              wc_out[i] = PySlice(wc_words, i - 1,
                                  Min(WCWordCount, i - 1 + wc_cw))

\* C3 witness: a finished run with 1 <= chunk_words <= overlap_words that
\* produced several windows
C3_Witness ==
    WCDone /\ wc_cw <= wc_ow /\ wc_cw >= 2 /\ Len(wc_out) >= 3

\* C28: for chunk_words > overlap_words >= 0 every window holds at least 1
\* and at most chunk_words words, every window but the last holds exactly
\* chunk_words words, and two consecutive windows share exactly
\* overlap_words words: the last overlap_words words of the earlier are the
\* first overlap_words words of the later.
C28_WindowSizesAndOverlap ==
    (WCDone /\ wc_cw > wc_ow /\ wc_ow >= 0) =>
        /\ \A i \in 1..Len(wc_out) :
              /\ Len(wc_out[i]) >= 1 /\ Len(wc_out[i]) <= wc_cw
              /\ i < Len(wc_out) => Len(wc_out[i]) = wc_cw
        /\ \A i \in 1..(Len(wc_out) - 1) :
              /\ Cardinality(WCRange(wc_out[i]) \cap WCRange(wc_out[i + 1]))
                    = wc_ow
              /\ Len(wc_out[i + 1]) >= wc_ow
              /\ SubSeq(wc_out[i], wc_cw - wc_ow + 1, wc_cw)
                    = SubSeq(wc_out[i + 1], 1, wc_ow)

\* C28 witness: a finished run of several windows whose last window is one
\* word longer than the overlap
C28_Witness ==
    /\ WCDone /\ wc_cw > wc_ow /\ wc_ow >= 2
    /\ Len(wc_out) >= 2
    /\ Len(wc_out[Len(wc_out)]) = wc_ow + 1

\* C27: _word_chunks terminates for every section and every pair of integers
\* (chunk_words, overlap_words), also chunk_words <= overlap_words and
\* chunk_words <= 0, and never emits more windows than the section has words.
C27_TerminatesWithinWordCount ==
    /\ <>WCDone
    /\ [](Len(wc_out) <= WCWordCount)

\* C27 witness: a finished run with chunk_words <= 0 that emitted one window
\* for each of its words
C27_Witness ==
    /\ WCDone /\ wc_cw <= 0 /\ wc_cw <= wc_ow
    /\ WCWordCount >= 2 /\ Len(wc_out) = WCWordCount

-----------------------------------------------------------------------------
\* Claims about ingest_paths (checked under Spec)

\* `call` describes the ingest_paths call that is running or was the last
\* operation of the session
IngestInView == pc = "ingest" \/ (pc = "idle" /\ ret.op = "ingest_paths")

\* the rows of the collection the call in view writes to
CallRows == collections[call.coll].rows

\* C4: paths are parsed strictly in order, each path's chunks are in the store
\* before the next path is parsed, and when parsing path k raises the call
\* ends at once: nothing after k is parsed or written and the rows committed
\* for paths 1..k-1 are still in the store, after the rows that were there.
C4_InOrderNoRollback ==
    IngestInView =>
        /\ call.parsed = [j \in 1..Len(call.parsed) |-> j]
        /\ Len(CallRows) = call.base + Len(Concat(call.written))
        /\ SubSeq(CallRows, call.base + 1, Len(CallRows)) = Concat(call.written)
        /\ \A j \in 1..Len(call.written) : \A k \in 1..Len(call.written[j]) :
              call.written[j][k].metadata.source = PathName(call.paths[j])
        /\ pc = "ingest" => /\ Len(call.parsed) = call.i - 1
                            /\ Len(call.written) = Len(call.parsed)
        /\ (pc = "idle" /\ ret.status = "returned") =>
              /\ Len(call.parsed) = Len(call.paths)
              /\ Len(call.written) = Len(call.paths)
        /\ (pc = "idle" /\ ret.status = "raised") =>
              /\ Len(call.parsed) <= Len(call.paths)
              /\ ~parse_document(call.paths[Len(call.parsed)]).ok
              /\ Len(call.written) = Len(call.parsed) - 1

\* C4 witness: the third of four paths failed to parse after the second
\* path's chunks were committed, and those chunks are in the store
C4_Witness ==
    /\ pc = "idle" /\ ret.op = "ingest_paths" /\ ret.status = "raised"
    /\ Len(call.paths) = 4 /\ Len(call.parsed) = 3
    /\ call.written[2] # <<>>
    /\ Ids(call.written[2]) \subseteq Ids(CallRows)

\* C5: once a call with reset_index = True ingests, and after it returned or
\* raised, no row that was in the active collection before the call is in it.
C5_ResetClearsStore ==
    (IngestInView /\ call.reset) =>
        call.before \cap Ids(CallRows) = {}

\* C5 witness: a resetting call over a collection that held rows has written
\* new rows
C5_Witness ==
    /\ IngestInView /\ call.reset
    /\ call.before # {}
    /\ CallRows # <<>>

\* the ingest_paths calls that returned, in order
Returned(i) == hist[i].status = "returned"

\* C6: of two returned calls over the same paths, the later without reset,
\* the later wrote as many rows as the earlier, under ids disjoint from the
\* earlier call's; and a call that just returned grew the store by its total.
C6_NoDeduplication ==
    /\ \A i \in 1..Len(hist) : \A j \in 1..Len(hist) :
          (i < j /\ Returned(i) /\ Returned(j)
               /\ hist[i].call.paths = hist[j].call.paths
               /\ ~hist[j].call.reset) =>
              /\ hist[j].call.total = hist[i].call.total
              /\ Len(Concat(hist[j].call.written)) = Len(Concat(hist[i].call.written))
              /\ Ids(Concat(hist[i].call.written))
                    \cap Ids(Concat(hist[j].call.written)) = {}
    /\ (pc = "idle" /\ ret.op = "ingest_paths" /\ ret.status = "returned") =>
          /\ Len(CallRows) = call.base + call.total
          /\ Cardinality(Ids(CallRows)) = Len(CallRows)

\* C6 witness: the same document ingested twice into the same collection
\* without reset; the store holds both sets of rows
C6_Witness ==
    /\ Len(hist) = 2 /\ Returned(1) /\ Returned(2)
    /\ hist[1].call.paths = hist[2].call.paths
    /\ hist[1].call.coll = hist[2].call.coll
    /\ ~hist[1].call.reset /\ ~hist[2].call.reset
    /\ hist[1].call.total > 0
    /\ pc = "idle" /\ ret.op = "ingest_paths"
    /\ Len(CallRows) = 2 * hist[1].call.total

\* the number of chunks chunk_document produces for the j-th path of the call
ChunksOfPath(j) == Len(chunk_document(parse_document(call.paths[j])))

\* C23: when ingest_paths returns n, n is the sum over its paths of the
\* chunks produced for the path, each path's chunks were all written, and
\* the collection holds exactly n rows more than when the call began (after
\* the reset, if any); a step for a path without chunks writes nothing to
\* the store and moves on to the next path.
C23_ReturnsChunksCommitted ==
    /\ []((pc = "idle" /\ ret.op = "ingest_paths" /\ ret.status = "returned") =>
            /\ ret.value = SumSeq([j \in 1..Len(call.paths) |-> ChunksOfPath(j)])
            /\ \A j \in 1..Len(call.paths) :
                   Len(call.written[j]) = ChunksOfPath(j)
            /\ ret.value = Len(Concat(call.written))
            /\ Len(CallRows) = call.base + ret.value
            /\ call.reset => call.base = 0)
    /\ [][(pc = "ingest" /\ call'.i = call.i + 1 /\ ChunksOfPath(call.i) = 0) =>
            /\ collections' = collections
            /\ pc' = "ingest"]_vars

\* C23 witness: a call whose first path yields no chunks has returned the
\* number of chunks of its second path
C23_Witness ==
    /\ pc = "idle" /\ ret.op = "ingest_paths" /\ ret.status = "returned"
    /\ Len(call.paths) = 2
    /\ call.written[1] = <<>> /\ call.written[2] # <<>>
    /\ ret.value = Len(call.written[2])

\* C7 as claimed: the chunks written by one ingest_paths call carry pairwise
\* distinct chunk_ids.
C7_ChunkIdsDistinctInRun ==
    IngestInView =>
        LET w == Concat(call.written)
        IN  \A i \in 1..Len(w) : \A j \in 1..Len(w) :
                i # j => w[i].metadata.chunk_id # w[j].metadata.chunk_id

\* the extension of the path, compared without case, is none of .txt, .md, .pdf
Unsupported(path) ==
    Lower(PathSuffix(path))
        \notin {<<".","t","x","t">>, <<".","m","d">>, <<".","p","d","f">>}

\* C19: parse_document fails with the unsupported-type error on every path
\* whose extension is not .txt, .md or .pdf (in any case), and an
\* ingest_paths call that comes to such a path ends there, raising that
\* error, having written nothing for it.
C19_UnsupportedRejected ==
    /\ \A p \in Paths :
          Unsupported(p) => /\ ~parse_document(p).ok
                            /\ parse_document(p).error = "ValueError"
    /\ IngestInView =>
          \A j \in 1..Len(call.parsed) :
              Unsupported(call.paths[j]) =>
                  /\ j = Len(call.parsed)
                  /\ pc = "idle"
                  /\ ret.status = "raised" /\ ret.value = "ValueError"
                  /\ Len(call.written) = j - 1
                  /\ Len(CallRows) = call.base + Len(Concat(call.written))

\* C19 witness: a call that stored the chunk of e.TXT and then raised on
\* NOTES.DOCX
C19_Witness ==
    /\ pc = "idle" /\ ret.op = "ingest_paths" /\ ret.status = "raised"
    /\ call.paths = <<"up/e.TXT", "up/NOTES.DOCX">>
    /\ Len(call.parsed) = 2
    /\ Len(call.written) = 1 /\ Len(call.written[1]) = 1
    /\ Len(CallRows) >= 1

\* the row r of collection n is a row of n after the step, unchanged
Kept(n, r) == \E k \in 1..Len(collections'[n].rows) : collections'[n].rows[k] = r

\* no row of collection n has the id of r after the step
Gone(n, r) == \A k \in 1..Len(collections'[n].rows) : collections'[n].rows[k].id # r.id

\* the step is delete_source, on the active collection n, of the source of r
DeletesSourceOf(n, r) ==
    /\ ret'.op = "delete_source" /\ ret'.source = r.metadata.source
    /\ n = current_collection_name(active)

\* the step resets the active collection n: reset_collection from the page,
\* or the start of ingest_paths(reset_index=True)
Resets(n) ==
    /\ n = current_collection_name(active)
    /\ \/ ret'.op = "reset_collection"
       \/ pc = "idle" /\ pc' = "ingest" /\ call'.reset

\* C18 as claimed: in every step every stored chunk stays in its collection
\* with the same id, text and metadata, unless the step is delete_source on
\* that chunk's source, which removes it.
C18_RemovedOnlyByDeleteSource ==
    [][\A n \in CollNames : \A i \in 1..Len(collections[n].rows) :
          LET r == collections[n].rows[i]
          IN  \/ Kept(n, r)
              \/ DeletesSourceOf(n, r) /\ Gone(n, r)]_vars

\* C18 amended: in every step every stored chunk stays in its collection
\* with the same id, text and metadata, unless the step is delete_source on
\* that chunk's source or a reset of its collection (reset_collection, also
\* as called by ingest_paths with reset_index = True), which remove it.
C18_RemovedByDeleteOrReset ==
    [][\A n \in CollNames : \A i \in 1..Len(collections[n].rows) :
          LET r == collections[n].rows[i]
          IN  \/ Kept(n, r)
              \/ DeletesSourceOf(n, r) /\ Gone(n, r)
              \/ Resets(n) /\ collections'[n].rows = <<>>]_vars

\* C18 witness: delete_source removed the chunks of one source from a
\* collection that keeps the chunks of another
C18_Witness ==
    /\ pc = "idle" /\ ret.op = "delete_source" /\ ret.value >= 1
    /\ collections[current_collection_name(active)].rows # <<>>

-----------------------------------------------------------------------------
\* Claims about the users' collections (checked under SpecUsers)

\* the ids of the rows whose metadata source is s
IdsOfSource(rows, s) ==
    {rows[i].id : i \in {j \in 1..Len(rows) : rows[j].metadata.source = s}}

\* C22: a delete_source(s) step removes exactly the chunks of its collection
\* whose metadata source is s, returns their number and leaves every other
\* chunk (of that and of every other collection) as it was; in the state
\* after it list_indexed_sources has no entry for s and its counts sum to the
\* number of chunks stored.
C22_DeleteSourceExact ==
    [][ret'.op = "delete_source" =>
          LET s == ret'.source
              before == collections[ret'.coll].rows
              after == collections'[ret'.coll].rows
              listed == list_indexed_sources(after)
          IN  /\ Ids(after) = Ids(before) \ IdsOfSource(before, s)
              /\ Len(after) = Cardinality(Ids(after))
              /\ \A i \in 1..Len(after) : Kept(ret'.coll, after[i])
                                            /\ after[i].metadata.source # s
              /\ \A i \in 1..Len(before) :
                     before[i].metadata.source # s => Kept(ret'.coll, before[i])
              /\ ret'.value = Cardinality(IdsOfSource(before, s))
              /\ \A n \in CollNames \ {ret'.coll} :
                     collections'[n] = collections[n]
              /\ \A k \in 1..Len(listed) : listed[k].source # s
              /\ SumSeq([k \in 1..Len(listed) |-> listed[k].chunks])
                     = Len(after)]_vars

\* C22 witness: delete_source removed the two chunks of a source and the
\* collection still lists another source
C22_Witness ==
    /\ pc = "idle" /\ ret.op = "delete_source" /\ ret.value = 2
    /\ list_indexed_sources(collections[ret.coll].rows) # <<>>

\* the user whose call is under way or has just ended
Caller(u) == sess[u] = "call" /\ ret.op # "none"

\* the ids the ingest_paths call under way has written so far
WrittenIds == Ids(Concat(call.written))

\* C16 as claimed: whatever the interleaving of the two users' script runs,
\* the ingest_paths call of a user writes only to that user's collection
\* rag_chunks_v1_<uid>, and the user's delete_source and retrieve_hybrid
\* calls work on that collection only.
C16_OwnCollectionOnly ==
    \A u \in Users :
        Caller(u) =>
            /\ ret.op = "ingest_paths" =>
                  /\ call.coll = collection_name(u)
                  /\ \A n \in CollNames \ {collection_name(u)} :
                         Ids(collections[n].rows) \cap WrittenIds = {}
            /\ ret.op \in {"delete_source", "retrieve_hybrid"} =>
                  ret.coll = collection_name(u)

-----------------------------------------------------------------------------
\* Claims about retrieve_hybrid (checked under SpecQuery)

\* the last operation was a retrieve_hybrid call; the store is as it read it
Asked == pc = "idle" /\ ret.op = "retrieve_hybrid"

\* the rows of the active collection: the corpus of the call
Corpus == collections[current_collection_name(active)].rows

\* C8 as claimed: retrieve_hybrid returns for every query and corpus, an
\* empty list over an empty corpus and a non-empty one over a non-empty
\* corpus when top_k >= 1.
C8_NeverRaises ==
    Asked =>
        /\ ret.status = "returned"
        /\ Corpus = <<>> => ret.value = <<>>
        /\ (Corpus # <<>> /\ ret.top_k >= 1) => ret.value # <<>>

\* C9 as claimed: retrieve_hybrid returns exactly min(top_k, N) chunks,
\* pairwise distinct and each a row of the store; top_k = 0 gives the empty
\* list without error.
C9_ExactlyMinTopKN ==
    Asked =>
        /\ ret.status = "returned"
        /\ Len(ret.value) = Min(ret.top_k, Len(Corpus))
        /\ \A i \in 1..Len(ret.value) : \A j \in 1..Len(ret.value) :
              i # j => ret.value[i].doc_id # ret.value[j].doc_id
        /\ \A i \in 1..Len(ret.value) : \E k \in 1..Len(Corpus) :
              /\ Corpus[k].id = ret.value[i].doc_id
              /\ Corpus[k].document = ret.value[i].text
              /\ Corpus[k].metadata = ret.value[i].metadata
        /\ ret.top_k = 0 => ret.value = <<>>

\* the corpus index of the k-th candidate of the call (store ids are unique)
CandidateIndex(k) ==
    CHOOSE i \in 1..Len(Corpus) : Corpus[i].id = ret.candidates[k].doc_id

\* C10 as claimed: a call that scored a corpus of N chunks picked exactly
\* min(N, max(4 * top_k, 8)) candidates, by descending hybrid score, chunks
\* of equal score in corpus order, and no chunk left out precedes a
\* candidate in that order.
C10_StableCandidates ==
    (Asked /\ ret.status = "returned" /\ Corpus # <<>>) =>
        /\ Len(ret.candidates) = Min(Len(Corpus), Max(4 * ret.top_k, 8))
        /\ \A k \in 1..Len(ret.candidates) :
              ret.candidates[k].score = ret.hybrid[CandidateIndex(k)]
        /\ \A k \in 1..(Len(ret.candidates) - 1) :
              \/ ret.candidates[k].score > ret.candidates[k + 1].score
              \/ /\ ret.candidates[k].score = ret.candidates[k + 1].score
                 /\ CandidateIndex(k) < CandidateIndex(k + 1)
        /\ \A i \in 1..Len(Corpus) :
              (\A k \in 1..Len(ret.candidates) : CandidateIndex(k) # i) =>
                 \A k \in 1..Len(ret.candidates) :
                    \/ ret.hybrid[i] < ret.candidates[k].score
                    \/ /\ ret.hybrid[i] = ret.candidates[k].score
                       /\ CandidateIndex(k) < i

\* 0.45 * lexical_norm + 0.55 * semantic_norm of the i-th document of docs,
\* in units of 1 / (100 * SCALE), semantic being all zero when the semantic
\* vector does not have one entry per document
FusedScore(query, docs, i) ==
    LET lexical_norm == normalize(bm25_scores(query, docs))
        sims == normalize(semantic_scores(query, docs).sims)
        semantic_norm == IF Len(sims) = Len(docs) THEN sims[i] ELSE 0
    IN  LexWeight * lexical_norm[i] + SemWeight * semantic_norm

\* C29: every chunk retrieve_hybrid returns is a row of the store, with the
\* row's id, text and metadata, and its score is that row's fused hybrid
\* score, a value in [0, 1], whatever the reranker.
C29_RerankKeepsChunks ==
    (Asked /\ ret.status = "returned") =>
        \A k \in 1..Len(ret.value) :
            \E i \in 1..Len(Corpus) :
                /\ ret.value[k].doc_id = Corpus[i].id
                /\ ret.value[k].text = Corpus[i].document
                /\ ret.value[k].metadata = Corpus[i].metadata
                /\ ret.value[k].score
                      = FusedScore(ret.query,
                                   [j \in 1..Len(Corpus) |-> Corpus[j].document], i)
                /\ ret.value[k].score >= 0
                /\ ret.value[k].score <= 100 * SCALE

\* C29 witness: with the heuristic reranker in effect two chunks came back,
\* one of them holding a query term with a hybrid score strictly between 0
\* and 1, so that its final_score is larger than the score it carries
C29_Witness ==
    /\ Asked /\ ret.status = "returned" /\ FallsBack(deploy.env)
    /\ Len(ret.value) >= 2
    /\ \E k \in 1..Len(ret.value) :
          /\ ret.value[k].score > 0 /\ ret.value[k].score < 100 * SCALE
          /\ Elems(tokenize(ret.query)) \cap Elems(tokenize(ret.value[k].text)) # {}

-----------------------------------------------------------------------------
\* Claims about the freshness of retrieval (checked under SpecFresh)

\* the ids the completed ingest_paths calls have committed, and those of
\* them that delete_source or a reset has removed since
EverWritten == UNION {Ids(Concat(hist[i].call.written)) : i \in 1..Len(hist)}
RemovedIds == EverWritten \ Ids(Corpus)

\* C25: a retrieve_hybrid call that returns has scored exactly the rows the
\* store holds at the time of the call, each from its stored text: every
\* chunk committed by a completed ingest and still stored has a score, and
\* no chunk that delete_source or a reset removed is returned.
C25_ReadsStoreAtQueryTime ==
    (Asked /\ ret.status = "returned") =>
        /\ Len(ret.hybrid) = Len(Corpus)
        /\ \A i \in 1..Len(Corpus) :
              ret.hybrid[i]
                 = FusedScore(ret.query,
                              [j \in 1..Len(Corpus) |-> Corpus[j].document], i)
        /\ Ids(Corpus) \subseteq EverWritten
        /\ \A k \in 1..Len(ret.value) :
              /\ ret.value[k].doc_id \in Ids(Corpus)
              /\ ret.value[k].doc_id \notin RemovedIds

\* C25 witness: a query after an ingest, a removal and a second ingest
\* returned chunks of the second ingest only
C25_Witness ==
    /\ Asked /\ ret.status = "returned"
    /\ Len(hist) = 2 /\ RemovedIds # {}
    /\ ret.value # <<>>
    /\ Ids(Corpus) \subseteq Ids(Concat(hist[2].call.written))

-----------------------------------------------------------------------------
\* Claims about the accounts (checked under SpecRegister)

\* a register_user call of session s returns in this step
RegisterReturns(s) == reg[s].pc # "idle" /\ reg'[s].pc = "idle"

OneAccountPerUsername ==
    \A x, y \in users_db : x.username = y.username => x = y

\* C21: a register_user call that returns while the trimmed, lower-cased
\* username is registered returns None: it does not raise and adds no row;
\* so table users never holds two rows of one username, also when the
\* calls of two sessions interleave.
C21_TakenReturnsNone ==
    /\ []OneAccountPerUsername
    /\ [][\A s \in Registrants :
            (RegisterReturns(s) /\ UsernameTaken(users_db, reg[s].username))
            => (reg'[s].result = "None" /\ users_db' = users_db)]_vars

\* the part of C21 that the UNIQUE column enforces whatever the interleaving:
\* a call that returns while the username is registered adds no row
C21_TakenAddsNoRow ==
    /\ []OneAccountPerUsername
    /\ [][\A s \in Registrants :
            (RegisterReturns(s) /\ UsernameTaken(users_db, reg[s].username))
            => users_db' = users_db]_vars

\* two sessions have registered spellings of one name (" Bob\n", "BOB"):
\* one has its profile, the other was refused with None
C21_Refused ==
    \E s, o \in Registrants :
        /\ reg[s].result = "profile" /\ reg[o].result = "None"
        /\ reg[s].username = reg[o].username /\ reg[o].username # <<>>
        /\ reg[s].pc = "idle" /\ reg[o].pc = "idle"

-----------------------------------------------------------------------------
\* Specification SpecFn: one call of a function of retrieval.py on arguments
\* drawn from bounded sets.

MaxVecLen == 3        \* longest score vector handed to _normalize
MaxScore == 3         \* scores handed to _normalize are 0..MaxScore units

\* the sequences over S of length 0..n
SeqsUpTo(S, n) == UNION {[1..k -> S] : k \in 0..n}

\* _normalize: the unit of the scores is 1e-12 (eps = 1: every spread that is
\* not zero is at least 1e-12) or 5e-13 (eps = 2: a spread of one unit is
\* below 1e-12)
NormalizeInputs ==
    {[op |-> "_normalize", scores |-> v, eps |-> e] :
        v \in SeqsUpTo(0..MaxScore, MaxVecLen), e \in {1, 2}}

MaxFuseDocs == 2      \* largest corpus handed to the fusion step
MaxFuseTopK == 1      \* largest top_k handed to the fusion step

\* normalised scores: 0, 0.5 and 1
Levels == {0, SCALE \div 2, SCALE}

\* a corpus of n rows as collection.get returns them
FnRows(n) ==
    [i \in 1..n |->
        [id |-> <<"d">> \o IntToStr(i),
         document |-> T_cat,
         metadata |-> [source |-> <<"d">>, page |-> <<"1">>,
                       chunk_id |-> <<"d">> \o IntToStr(i), ingested_at |-> 1]]]

\* the fusion step of retrieve_hybrid (lines 127-141) on normalised lexical
\* scores of 1..MaxFuseDocs documents and a semantic vector of the same or
\* another length
FuseInputs ==
    {[op |-> "fuse", bm25 |-> b, semantic |-> v, top_k |-> k, tie |-> t] :
        b \in SeqsUpTo(Levels, MaxFuseDocs) \ {<<>>},
        v \in SeqsUpTo(Levels, MaxFuseDocs + 1),
        k \in 0..MaxFuseTopK, t \in TieOrders}

MaxCands == 3         \* longest candidate list handed to the reranker

\* candidate lists: the i-th candidate is document i, with one of three
\* texts and a hybrid score of 0, 0.5 or 1
CandidateLists ==
    UNION {[1..n -> {T_cat, T_dog, T_cat_dog} \X {0, 50 * SCALE, 100 * SCALE}] :
              n \in 0..MaxCands}

RerankCandidates(choice) ==
    [i \in 1..Len(choice) |->
        [doc_id |-> <<"d">> \o IntToStr(i), text |-> choice[i][1],
         metadata |-> [source |-> <<"d">>, page |-> <<"1">>,
                       chunk_id |-> <<"d">> \o IntToStr(i), ingested_at |-> 1],
         score |-> choice[i][2]]]

\* the environments of a reranker call: those of the deployments, and a
\* model that returns fewer scores than pairs
RerankCallEnvs ==
    RerankEnvs \cup {[enabled |-> TRUE, importable |-> TRUE, raises |-> FALSE,
                      model |-> "short"]}

RerankInputs ==
    {[op |-> "_cross_encoder_rerank", query |-> q,
      candidates |-> RerankCandidates(c), env |-> e] :
        q \in {T_cat, T_cat_dog, <<>>},
        c \in CandidateLists, e \in RerankCallEnvs}

MaxBm25Docs == 2      \* largest corpus handed to _bm25_scores

T_cat3_dog2 == <<"c","a","t","SP","c","a","t","SP","d","o","g","SP",
                 "d","o","g","SP","c","a","t">>

\* _bm25_scores on corpora of 0..MaxBm25Docs short documents
Bm25Inputs ==
    {[op |-> "_bm25_scores", query |-> q, docs |-> d] :
        q \in {T_cat, T_dog, T_owl, <<>>},
        d \in SeqsUpTo({T_cat_dog, T_cat3_dog2, T_dog, T_the, <<>>}, MaxBm25Docs)}

MaxFragments == 3     \* pieces a text handed to _split_sections is made of

\* pieces of text: the three kinds of heading, near misses of each (four
\* hashes, a lower-case start, a lower-case word after the number), words
\* and white space
Fragments ==
    { <<"NL","#","SP">>, <<"NL","#","#","#","#","SP">>,
      <<"NL","A","b","SP","c",":">>, <<"NL","a","b","c","d",":">>,
      <<"NL","1",".","SP","TAB","A">>, <<"NL","2","SP","a">>,
      T_cat, <<"SP","d","o","g","NL">>, <<"TAB","NUL","SP">>, <<"NL">> }

SplitInputs ==
    {[op |-> "_split_sections", text |-> Concat(fs)] :
        fs \in SeqsUpTo(Fragments, MaxFragments)}

FnInputs ==
    NormalizeInputs \cup FuseInputs \cup RerankInputs \cup Bm25Inputs
        \cup SplitInputs

FnInit ==
    /\ fn_in \in FnInputs
    /\ fn_out = [done |-> FALSE]
    /\ AppInit /\ WCIdle /\ SessIdle /\ RegIdle
    /\ deploy = DefaultDeployment

NormalizeCall ==
    /\ fn_in.op = "_normalize"
    /\ ~fn_out.done
    /\ fn_out' = [done |-> TRUE, value |-> NormalizeIn(fn_in.scores, fn_in.eps)]
    /\ UNCHANGED <<fn_in, app_vars, wc_vars, sess, reg_vars>>

FuseCall ==
    /\ fn_in.op = "fuse"
    /\ ~fn_out.done
    /\ fn_out' = [done |-> TRUE,
                  value |-> RetrieveScore(FnRows(Len(fn_in.bm25)), T_cat,
                                          fn_in.top_k, fn_in.tie,
                                          DefaultDeployment.env,
                                          fn_in.bm25, fn_in.semantic)]
    /\ UNCHANGED <<fn_in, app_vars, wc_vars, sess, reg_vars>>

RerankCall ==
    /\ fn_in.op = "_cross_encoder_rerank"
    /\ ~fn_out.done
    /\ fn_out' = [done |-> TRUE,
                  value |-> cross_encoder_rerank(fn_in.query, fn_in.candidates,
                                                 fn_in.env)]
    /\ UNCHANGED <<fn_in, app_vars, wc_vars, sess, reg_vars>>

Bm25Call ==
    /\ fn_in.op = "_bm25_scores"
    /\ ~fn_out.done
    /\ fn_out' = [done |-> TRUE, value |-> bm25_scores(fn_in.query, fn_in.docs)]
    /\ UNCHANGED <<fn_in, app_vars, wc_vars, sess, reg_vars>>

SplitSectionsCall ==
    /\ fn_in.op = "_split_sections"
    /\ ~fn_out.done
    /\ fn_out' = [done |-> TRUE, value |-> split_sections(fn_in.text)]
    /\ UNCHANGED <<fn_in, app_vars, wc_vars, sess, reg_vars>>

FnNext ==
    \/ NormalizeCall
    \/ FuseCall
    \/ RerankCall
    \/ Bm25Call
    \/ SplitSectionsCall

SpecFn == FnInit /\ [][FnNext]_vars

-----------------------------------------------------------------------------
\* Claims about the scoring functions (checked under SpecFn)

\* a call of the function `op` has returned
Returns(op) == fn_in.op = op /\ fn_out.done

FnSpan == SeqMax(fn_in.scores) - SeqMin(fn_in.scores)

\* C11 as claimed: every non-empty vector is mapped into [0, 1], its minimum
\* to 0 and its maximum to 1 unless its spread is zero, and a vector of zero
\* spread to 0.5 at every position.
C11_MinToZeroMaxToOne ==
    (Returns("_normalize") /\ fn_in.scores # <<>>) =>
        /\ Len(fn_out.value) = Len(fn_in.scores)
        /\ \A i \in 1..Len(fn_out.value) :
              0 <= fn_out.value[i] /\ fn_out.value[i] <= SCALE
        /\ FnSpan = 0 =>
              \A i \in 1..Len(fn_out.value) : fn_out.value[i] = SCALE \div 2
        /\ FnSpan # 0 =>
              \A i \in 1..Len(fn_out.value) :
                 /\ fn_in.scores[i] = SeqMin(fn_in.scores) => fn_out.value[i] = 0
                 /\ fn_in.scores[i] = SeqMax(fn_in.scores) => fn_out.value[i] = SCALE

\* C11 amended: every non-empty vector is mapped into [0, 1]; its minimum
\* goes to 0 and its maximum to 1 when its spread is at least 1e-12, and a
\* vector whose spread is below 1e-12 (zero spread included) goes to 0.5 at
\* every position.
C11_NormalizeWithinEps ==
    (Returns("_normalize") /\ fn_in.scores # <<>>) =>
        /\ Len(fn_out.value) = Len(fn_in.scores)
        /\ \A i \in 1..Len(fn_out.value) :
              0 <= fn_out.value[i] /\ fn_out.value[i] <= SCALE
        /\ FnSpan < fn_in.eps =>
              \A i \in 1..Len(fn_out.value) : fn_out.value[i] = SCALE \div 2
        /\ FnSpan >= fn_in.eps =>
              \A i \in 1..Len(fn_out.value) :
                 /\ fn_in.scores[i] = SeqMin(fn_in.scores) => fn_out.value[i] = 0
                 /\ fn_in.scores[i] = SeqMax(fn_in.scores) => fn_out.value[i] = SCALE

\* C11 witness: a vector whose spread is not zero but below 1e-12, normalised
\* to 0.5 everywhere
C11_Witness ==
    /\ Returns("_normalize")
    /\ fn_in.eps = 2 /\ fn_in.scores = <<1, 2, 1>>
    /\ fn_out.value = <<SCALE \div 2, SCALE \div 2, SCALE \div 2>>

\* C12: when the semantic vector's length differs from the lexical vector's,
\* the call still returns and the hybrid scores are 0.45 times the lexical
\* scores (the semantic vector counts as all zeros).
C12_MismatchTreatedAsZeros ==
    (Returns("fuse") /\ Len(fn_in.semantic) # Len(fn_in.bm25)) =>
        /\ fn_out.value.status = "returned"
        /\ fn_out.value.hybrid
              = [i \in 1..Len(fn_in.bm25) |-> LexWeight * fn_in.bm25[i]]
        /\ Len(fn_out.value.candidates) = Len(fn_in.bm25)

\* C12 witness: lexical scores [0, 1] with a semantic vector of three
\* non-zero scores
C12_Witness ==
    /\ Returns("fuse")
    /\ fn_in.bm25 = <<0, SCALE>>
    /\ fn_in.semantic = <<SCALE, SCALE, SCALE>>
    /\ fn_out.value.hybrid = <<0, LexWeight * SCALE>>

\* the call fused lexical scores [0, 1] with semantic scores [1, 0]
FusedZeroOneOneZero ==
    /\ Returns("fuse")
    /\ fn_in.bm25 = <<0, SCALE>>
    /\ fn_in.semantic = <<SCALE, 0>>

\* C13 as claimed: lexical [0, 1] and semantic [1, 0] fuse to [0.55, 0.45]
\* and the second document is first in the hybrid ordering.
C13_SecondDocumentFirst ==
    FusedZeroOneOneZero =>
        /\ fn_out.value.hybrid = <<55 * SCALE, 45 * SCALE>>
        /\ fn_out.value.candidates[1].doc_id = FnRows(2)[2].id

\* C13 amended: lexical [0, 1] and semantic [1, 0] fuse to [0.55, 0.45] and
\* the first document, whose hybrid score is the higher, is first in the
\* hybrid ordering.
C13_FirstDocumentFirst ==
    FusedZeroOneOneZero =>
        /\ fn_out.value.hybrid = <<55 * SCALE, 45 * SCALE>>
        /\ fn_out.value.candidates[1].doc_id = FnRows(2)[1].id
        /\ fn_out.value.candidates[2].doc_id = FnRows(2)[2].id

\* C13 witness: that call, with both documents among the candidates
C13_Witness ==
    FusedZeroOneOneZero /\ Len(fn_out.value.candidates) = 2

\* C14 as claimed: whatever the strategy and the scores of the external
\* model, the reranker's result is a permutation of its candidate list.
C14_RerankIsPermutation ==
    Returns("_cross_encoder_rerank") =>
        /\ Len(fn_out.value) = Len(fn_in.candidates)
        /\ \A i \in 1..Len(fn_in.candidates) :
              Count(fn_out.value, fn_in.candidates[i]) = 1


\* 0.8 * score + 0.2 * overlap of _heuristic_rerank, times 10 * max(1, |q|)
HeuristicKey(query, c) ==
    8 * Max(1, Cardinality(Elems(tokenize(query)))) * c.score
      + 2 * Cardinality(Elems(tokenize(query)) \cap Elems(tokenize(c.text)))
          * (100 * SCALE)

\* C15: when the external reranker is disabled, not importable or raises,
\* _cross_encoder_rerank returns the ranking of _heuristic_rerank for the
\* same query and candidates: the candidates by descending heuristic score,
\* equal scores in their given order.
C15_FallbackIsHeuristic ==
    (Returns("_cross_encoder_rerank") /\ FallsBack(fn_in.env)) =>
        /\ fn_out.value = heuristic_rerank(fn_in.query, fn_in.candidates)
        /\ Len(fn_out.value) = Len(fn_in.candidates)
        /\ \A i \in 1..Len(fn_in.candidates) :
              Count(fn_out.value, fn_in.candidates[i]) = 1
        /\ \A k \in 1..(Len(fn_out.value) - 1) :
              \/ HeuristicKey(fn_in.query, fn_out.value[k])
                    > HeuristicKey(fn_in.query, fn_out.value[k + 1])
              \/ /\ HeuristicKey(fn_in.query, fn_out.value[k])
                       = HeuristicKey(fn_in.query, fn_out.value[k + 1])
                 /\ \E i \in 1..Len(fn_in.candidates) :
                    \E j \in (i + 1)..Len(fn_in.candidates) :
                       /\ fn_in.candidates[i] = fn_out.value[k]
                       /\ fn_in.candidates[j] = fn_out.value[k + 1]

\* C15 witness: the model raised, and the heuristic moved the last candidate
\* to the front
C15_Witness ==
    /\ Returns("_cross_encoder_rerank")
    /\ fn_in.env.enabled /\ fn_in.env.importable /\ fn_in.env.raises
    /\ Len(fn_in.candidates) = 3
    /\ fn_out.value[1] = fn_in.candidates[3]

\* final_score = 0.8 * hybrid_score + 0.2 * overlap ratio of candidate c,
\* times 10 * |query_terms| (times 10 when the query has no terms and the
\* ratio is 0); c.score is in units of 1 / (100 * SCALE)
FinalScore(query, c) ==
    LET query_terms == Elems(tokenize(query))
        doc_terms == Elems(tokenize(c.text))
    IN  IF query_terms = {} THEN 8 * c.score
        ELSE 8 * Cardinality(query_terms) * c.score
               + 2 * Cardinality(query_terms \cap doc_terms) * (100 * SCALE)

\* C24: when the heuristic strategy is in effect the reranked list holds the
\* candidates by descending final_score.
C24_OrderedByFinalScore ==
    (Returns("_cross_encoder_rerank") /\ FallsBack(fn_in.env)) =>
        /\ Len(fn_out.value) = Len(fn_in.candidates)
        /\ Elems(fn_out.value) = Elems(fn_in.candidates)
        /\ \A k \in 1..(Len(fn_out.value) - 1) :
              FinalScore(fn_in.query, fn_out.value[k])
                  >= FinalScore(fn_in.query, fn_out.value[k + 1])

\* C24 witness: under the default configuration a two-term query put a
\* candidate that holds both terms ahead of one that holds one of them and
\* has the same hybrid score, against their given order
C24_Witness ==
    /\ Returns("_cross_encoder_rerank") /\ ~fn_in.env.enabled
    /\ fn_in.query = T_cat_dog
    /\ Len(fn_in.candidates) = 2
    /\ fn_in.candidates[1].text = T_cat /\ fn_in.candidates[2].text = T_cat_dog
    /\ fn_in.candidates[1].score = fn_in.candidates[2].score
    /\ fn_out.value = <<fn_in.candidates[2], fn_in.candidates[1]>>

\* C26: the words of the sections _split_sections returns, in order, are
\* the words of the normalized text; every section is normalized; an empty
\* section is returned only alone; and when no boundary matches or every
\* block normalizes to empty the result is the one section holding the
\* whole normalized text.
C26_SectionsKeepWords ==
    Returns("_split_sections") =>
        LET out == fn_out.value
            whole == normalize_whitespace(fn_in.text)
            blocks == RoughBlocks(fn_in.text)
        IN  /\ Concat([i \in 1..Len(out) |-> SplitWords(out[i])])
                  = SplitWords(whole)
            /\ Len(out) >= 1
            /\ \A i \in 1..Len(out) :
                  /\ normalize_whitespace(out[i]) = out[i]
                  /\ out[i] = <<>> => Len(out) = 1
            /\ Len(out) <= Len(blocks)
            /\ (\/ SplitPoints(fn_in.text) = {}
                \/ \A k \in 1..Len(blocks) :
                       normalize_whitespace(blocks[k]) = <<>>)
                  => out = <<whole>>

\* C26 witness: a text with two heading boundaries whose first block is
\* white space only gave two sections
C26_Witness ==
    /\ Returns("_split_sections")
    /\ Cardinality(SplitPoints(fn_in.text)) = 2
    /\ normalize_whitespace(RoughBlocks(fn_in.text)[1]) = <<>>
    /\ Len(fn_out.value) = 2

\* C20: for the query "cat" over A = "cat dog" and B = "cat cat dog dog cat"
\* (in either order), _bm25_scores gives B a strictly higher score than A.
C20_Bm25Monotone ==
    (Returns("_bm25_scores") /\ fn_in.query = T_cat) =>
        /\ fn_in.docs = <<T_cat_dog, T_cat3_dog2>> =>
              fn_out.value[2] > fn_out.value[1]
        /\ fn_in.docs = <<T_cat3_dog2, T_cat_dog>> =>
              fn_out.value[1] > fn_out.value[2]

\* C20 witness: the call of the claim, both scores positive
C20_Witness ==
    /\ Returns("_bm25_scores") /\ fn_in.query = T_cat
    /\ fn_in.docs = <<T_cat_dog, T_cat3_dog2>>
    /\ fn_out.value[1] > 0
    /\ fn_out.value[2] > fn_out.value[1]

-----------------------------------------------------------------------------
\* Claims about the long document end to end (checked under SpecE2E)

\* the store was empty and ingest_paths has returned from the long document
E2EIngested ==
    /\ pc = "idle" /\ Len(hist) = 1
    /\ hist[1].status = "returned" /\ hist[1].call.paths = <<"up/w400.txt">>

\* a term at one of the word positions `where` was asked for after that
E2EAsked(where) ==
    /\ E2EIngested /\ ret.op = "retrieve_hybrid"
    /\ ret.query \in {WordNo(i) : i \in where}

\* the store holds exactly the two windows of the document, both of page 1
E2ETwoChunks ==
    /\ Len(Corpus) = 2
    /\ Corpus[1].document = DocSlice(0, DefaultChunkWords)
    /\ Corpus[2].document =
          DocSlice(DefaultChunkWords - DefaultOverlapWords, DocWordCount)
    /\ \A i \in 1..2 : Corpus[i].metadata.page = <<"1">>

\* the call returned a list led by the first chunk
E2EFirstChunkLeads ==
    /\ ret.status = "returned" /\ ret.value # <<>>
    /\ ret.value[1].doc_id = Corpus[1].id
    /\ ret.value[1].text = DocSlice(0, DefaultChunkWords)

====
